---------------------------- MODULE Spec2Model ----------------------------
(***************************************************************************)
(* Model of the Tkinter preview core: TkinterParser (source text to widget *)
(* forest) and TkinterBehaviorEngine (geometry/default rules on a forest). *)
(*                                                                         *)
(* JavaScript strings are sequences of one-character strings, so that the  *)
(* regular expressions, the argument splitter and the literal parser are   *)
(* computed character by character as the code computes them.  JavaScript  *)
(* objects are heap cells addressed by an index, so that aliasing and      *)
(* in-place mutation are visible.                                          *)
(***************************************************************************)
EXTENDS Integers, Sequences, FiniteSets, TLC

VARIABLES
    pythonCode,     \* parse: the source text handed to parse()
    lines,          \* parse: pythonCode.split('\n')
    i,              \* parse: loop index of the second pass (1-based)
    pc,             \* parse: position inside parse()
    widgets,        \* parse: the flat list of widget objects, in creation order
    variableMap,    \* parse: Map name -> index into widgets
    result,         \* parse: the ParseResult under construction
    heap,           \* engine: widget objects by identity (index = reference)
    forest,         \* engine: the argument of applyBehaviors (root references)
    before,         \* engine: the heap as it was when applyBehaviors was called
    modifiedWidgets,\* engine: the copied forest being annotated (root references)
    appliedRules,   \* engine: this.appliedRules
    warnings,       \* engine: this.warnings
    bpc,            \* engine: position inside applyBehaviors
    cursor,         \* engine: position of the layout pass in its traversal
    round,          \* engine: how many times applyBehaviors has been called
    idCounter,      \* converter: this.idCounter
    errors,         \* converter: this.errors
    html,           \* converter: the markup generated by convert's try block
    thrown,         \* converter: the message of the exception caught, if any
    conversion,     \* converter: the ConversionResult returned
    cpc,            \* converter: position inside convert
    callCount,      \* session: how many times parse was called on the instance
    returned,       \* session: what each finished call was given and returned
    disk,           \* panel: the version of the text of each file on disk
    autoRefresh,    \* the setting tkinter-preview.autoRefresh
    active,         \* the extension is activated and not yet deactivated
    changeReads,    \* watcher: the files handleFileChange is reading
    updateTimeouts, \* watcher: this.updateTimeouts, the files with a timer
    timers,         \* watcher: the timers set and neither cleared nor fired
    currentPythonFile, \* watcher: this.currentPythonFile, "" when undefined
    live,           \* panel: the panels created and not disposed
    currentPanel,   \* panel: TkinterPreviewPanel.currentPanel, 0 when undefined
    restorable,     \* panel: preview tabs of the last session not yet revived
    messages,       \* panel: the panels a message of the webview is posted to
    reads,          \* panel: the readFile calls of updateContent, by request
    requested,      \* panel: how many times updateContent was called
    webview         \* panel: what each panel's webview.html was made from

parseVars == <<pythonCode, lines, i, pc, widgets, variableMap, result>>

engineVars ==
    <<heap, forest, before, modifiedWidgets, appliedRules, warnings, bpc,
      cursor, round>>

convertVars == <<idCounter, errors, html, thrown, conversion, cpc>>

sessionVars == <<callCount, returned>>

panelVars ==
    <<disk, autoRefresh, active, changeReads, updateTimeouts, timers,
      currentPythonFile, live, currentPanel, restorable, messages, reads,
      requested, webview>>

vars == <<parseVars, engineVars, convertVars, sessionVars, panelVars>>

\* what the parser and the behaviour engine leave alone
outsideParser == <<engineVars, convertVars, sessionVars, panelVars>>
outsideEngine == <<parseVars, convertVars, sessionVars, panelVars>>
outsidePanel == <<parseVars, engineVars, convertVars, sessionVars>>

---------------------------------------------------------------------------
(* Bounds *)

MaxLines == 3

---------------------------------------------------------------------------
(* JavaScript values held in properties / layoutOptions *)

Str(s) == [t |-> "str", n |-> 0, e |-> 0, s |-> s]
Num(n) == [t |-> "num", n |-> n, e |-> 0, s |-> <<>>]
\* a decimal literal m / 10^e that is not an integer
Dec(m, e) == [t |-> "num", n |-> m, e |-> e, s |-> <<>>]
Bool(b) == [t |-> "bool", n |-> IF b THEN 1 ELSE 0, e |-> 0, s |-> <<>>]
Null == [t |-> "null", n |-> 0, e |-> 0, s |-> <<>>]
NaN == [t |-> "nan", n |-> 0, e |-> 0, s |-> <<>>]
Undefined == [t |-> "undefined", n |-> 0, e |-> 0, s |-> <<>>]

---------------------------------------------------------------------------
(* Character classes and string helpers (String.prototype / RegExp) *)

Digits == {"0", "1", "2", "3", "4", "5", "6", "7", "8", "9"}

Letters ==
    {"a", "b", "c", "d", "e", "f", "g", "h", "i", "j", "k", "l", "m",
     "n", "o", "p", "q", "r", "s", "t", "u", "v", "w", "x", "y", "z",
     "A", "B", "C", "D", "E", "F", "G", "H", "I", "J", "K", "L", "M",
     "N", "O", "P", "Q", "R", "S", "T", "U", "V", "W", "X", "Y", "Z"}

\* \w
WordChars == Letters \cup Digits \cup {"_"}

\* \s
WhiteSpace == {" ", "\t", "\r"}

DigitValue(c) ==
    CASE c = "0" -> 0 [] c = "1" -> 1 [] c = "2" -> 2 [] c = "3" -> 3
      [] c = "4" -> 4 [] c = "5" -> 5 [] c = "6" -> 6 [] c = "7" -> 7
      [] c = "8" -> 8 [] c = "9" -> 9

\* position just after the longest run of characters of class cls starting at p
RECURSIVE RunEnd(_, _, _)
RunEnd(s, p, cls) ==
    IF p > Len(s) \/ s[p] \notin cls THEN p ELSE RunEnd(s, p + 1, cls)

\* position of the last character of s that is not in cls, 0 when none
RECURSIVE LastOutside(_, _, _)
LastOutside(s, q, cls) ==
    IF q = 0 \/ s[q] \notin cls THEN q ELSE LastOutside(s, q - 1, cls)

\* String.prototype.trim
Trim(s) == SubSeq(s, RunEnd(s, 1, WhiteSpace), LastOutside(s, Len(s), WhiteSpace))

\* the literal lit occurs in s at position p
HasAt(s, p, lit) ==
    /\ p + Len(lit) - 1 <= Len(s)
    /\ SubSeq(s, p, p + Len(lit) - 1) = lit

\* String.prototype.startsWith / endsWith / includes
StartsWith(s, lit) == HasAt(s, 1, lit)
EndsWith(s, lit) == Len(s) >= Len(lit) /\ HasAt(s, Len(s) - Len(lit) + 1, lit)
Includes(s, lit) == \E p \in 1..(Len(s) + 1) : HasAt(s, p, lit)

\* index of the first occurrence of character c at or after p, 0 when none
RECURSIVE IndexFrom(_, _, _)
IndexFrom(s, p, c) ==
    IF p > Len(s) THEN 0
    ELSE IF s[p] = c THEN p
    ELSE IndexFrom(s, p + 1, c)

\* String.prototype.split(sep) for a one-character separator
RECURSIVE SplitAll(_, _)
SplitAll(s, sep) ==
    LET q == IndexFrom(s, 1, sep)
    IN  IF q = 0 THEN <<s>>
        ELSE <<SubSeq(s, 1, q - 1)>> \o SplitAll(SubSeq(s, q + 1, Len(s)), sep)

\* String.prototype.split(sep, limit): the first limit pieces of the full split
SplitLimit(s, sep, limit) ==
    LET all == SplitAll(s, sep)
    IN  IF Len(all) > limit THEN SubSeq(all, 1, limit) ELSE all

\* Array.prototype.join for lines
RECURSIVE JoinLines(_)
JoinLines(ls) ==
    IF Len(ls) = 0 THEN <<>>
    ELSE IF Len(ls) = 1 THEN ls[1]
    ELSE ls[1] \o <<"\n">> \o JoinLines(Tail(ls))

\* parseInt on a string of decimal digits
RECURSIVE DigitsToInt(_)
DigitsToInt(ds) ==
    IF Len(ds) = 0 THEN 0
    ELSE 10 * DigitsToInt(SubSeq(ds, 1, Len(ds) - 1)) + DigitValue(ds[Len(ds)])

AllDigits(s) == \A k \in 1..Len(s) : s[k] \in Digits

\* the number m / 10^e in lowest decimal form
RECURSIVE Decimal(_, _)
Decimal(m, e) ==
    IF e > 0 /\ m % 10 = 0 THEN Decimal(m \div 10, e - 1)
    ELSE IF e = 0 THEN Num(m) ELSE Dec(m, e)

---------------------------------------------------------------------------
(* Words of the source language, as character sequences *)

wTk == <<"T", "k">>
wToplevel == <<"T", "o", "p", "l", "e", "v", "e", "l">>
wFrame == <<"F", "r", "a", "m", "e">>
wLabelFrame == <<"L", "a", "b", "e", "l", "F", "r", "a", "m", "e">>
wLabel == <<"L", "a", "b", "e", "l">>
wButton == <<"B", "u", "t", "t", "o", "n">>
wEntry == <<"E", "n", "t", "r", "y">>
wText == <<"T", "e", "x", "t">>
wListbox == <<"L", "i", "s", "t", "b", "o", "x">>
wCheckbutton == <<"C", "h", "e", "c", "k", "b", "u", "t", "t", "o", "n">>
wRadiobutton == <<"R", "a", "d", "i", "o", "b", "u", "t", "t", "o", "n">>
wScale == <<"S", "c", "a", "l", "e">>
wSpinbox == <<"S", "p", "i", "n", "b", "o", "x">>
wCanvas == <<"C", "a", "n", "v", "a", "s">>
wMenu == <<"M", "e", "n", "u">>
wMenubutton == <<"M", "e", "n", "u", "b", "u", "t", "t", "o", "n">>
wOptionMenu == <<"O", "p", "t", "i", "o", "n", "M", "e", "n", "u">>
wScrollbar == <<"S", "c", "r", "o", "l", "l", "b", "a", "r">>
wPanedWindow == <<"P", "a", "n", "e", "d", "W", "i", "n", "d", "o", "w">>
wNotebook == <<"N", "o", "t", "e", "b", "o", "o", "k">>
wProgressbar == <<"P", "r", "o", "g", "r", "e", "s", "s", "b", "a", "r">>
wCombobox == <<"C", "o", "m", "b", "o", "b", "o", "x">>
wTreeview == <<"T", "r", "e", "e", "v", "i", "e", "w">>
wSeparator == <<"S", "e", "p", "a", "r", "a", "t", "o", "r">>

wpack == <<"p", "a", "c", "k">>
wgrid == <<"g", "r", "i", "d">>
wplace == <<"p", "l", "a", "c", "e">>

\* property and option names
kText == <<"t", "e", "x", "t">>
kWidth == <<"w", "i", "d", "t", "h">>
kHeight == <<"h", "e", "i", "g", "h", "t">>
kTitle == <<"t", "i", "t", "l", "e">>
kRelief == <<"r", "e", "l", "i", "e", "f">>
kBorderwidth == <<"b", "o", "r", "d", "e", "r", "w", "i", "d", "t", "h">>
kBd == <<"b", "d">>
kPadx == <<"p", "a", "d", "x">>
kPady == <<"p", "a", "d", "y">>
kBackground == <<"b", "a", "c", "k", "g", "r", "o", "u", "n", "d">>
kSide == <<"s", "i", "d", "e">>
kFill == <<"f", "i", "l", "l">>
kRow == <<"r", "o", "w">>
kColumn == <<"c", "o", "l", "u", "m", "n">>
kRowspan == <<"r", "o", "w", "s", "p", "a", "n">>
kColumnspan == <<"c", "o", "l", "u", "m", "n", "s", "p", "a", "n">>
kX == <<"x">>
kY == <<"y">>
kIsRoot == <<"_", "i", "s", "R", "o", "o", "t">>
kAutoSize == <<"_", "a", "u", "t", "o", "S", "i", "z", "e">>
kDefaultPadding == <<"_", "d", "e", "f", "a", "u", "l", "t", "P", "a", "d", "d", "i", "n", "g">>
kGridContainer == <<"_", "g", "r", "i", "d", "C", "o", "n", "t", "a", "i", "n", "e", "r">>
kGridRows == <<"_", "g", "r", "i", "d", "R", "o", "w", "s">>
kGridColumns == <<"_", "g", "r", "i", "d", "C", "o", "l", "u", "m", "n", "s">>
kPositioned == <<"_", "p", "o", "s", "i", "t", "i", "o", "n", "e", "d">>
kCalculatedWidth == <<"_", "c", "a", "l", "c", "u", "l", "a", "t", "e", "d", "W", "i", "d", "t", "h">>
kCalculatedHeight == <<"_", "c", "a", "l", "c", "u", "l", "a", "t", "e", "d", "H", "e", "i", "g", "h", "t">>

---------------------------------------------------------------------------
(* TkinterParser: tables *)

supportedWidgets ==
    {wTk, wToplevel, wFrame, wLabelFrame,
     wLabel, wButton, wEntry, wText, wListbox,
     wCheckbutton, wRadiobutton, wScale, wSpinbox,
     wCanvas, wMenu, wMenubutton, wOptionMenu,
     wScrollbar, wPanedWindow, wNotebook, wProgressbar,
     wCombobox, wTreeview, wSeparator}

layoutManagers == {wpack, wgrid, wplace}

\* an object literal {} and the assignment obj[key] = value
EmptyObject == [k \in {} |-> Null]
Put(obj, key, value) ==
    [k \in DOMAIN obj \cup {key} |-> IF k = key THEN value ELSE obj[k]]
\* Object.assign(target, source)
ObjectAssign(target, source) ==
    [k \in DOMAIN target \cup DOMAIN source |->
        IF k \in DOMAIN source THEN source[k] ELSE target[k]]

---------------------------------------------------------------------------
(* TkinterParser: literal parsing and argument splitting *)

\* /^-?\d+$/
IsIntegerLiteral(value) ==
    IF StartsWith(value, <<"-">>)
    THEN Len(value) > 1 /\ AllDigits(Tail(value))
    ELSE Len(value) > 0 /\ AllDigits(value)

\* parseInt(value) for a value matching /^-?\d+$/
parseInt(value) ==
    IF StartsWith(value, <<"-">>)
    THEN 0 - DigitsToInt(Tail(value))
    ELSE DigitsToInt(value)

\* /^-?\d*\.\d+$/ given the position dot of the first "." (0 when none)
IsDecimalAt(value, dot) ==
    /\ dot # 0
    /\ dot < Len(value)
    /\ AllDigits(SubSeq(value, dot + 1, Len(value)))
    /\ IF StartsWith(value, <<"-">>)
       THEN AllDigits(SubSeq(value, 2, dot - 1))
       ELSE AllDigits(SubSeq(value, 1, dot - 1))

\* parseFloat(value) for a value matching /^-?\d*\.\d+$/ with its "." at dot
parseFloatAt(value, dot) ==
    IF StartsWith(value, <<"-">>)
    THEN Decimal(0 - DigitsToInt(SubSeq(value, 2, dot - 1)
                                 \o SubSeq(value, dot + 1, Len(value))),
                 Len(value) - dot)
    ELSE Decimal(DigitsToInt(SubSeq(value, 1, dot - 1)
                             \o SubSeq(value, dot + 1, Len(value))),
                 Len(value) - dot)

\* parseValue after value = value.trim()
parseTrimmedValue(value) ==
    IF value = <<"T", "r", "u", "e">> THEN Bool(TRUE)
    ELSE IF value = <<"F", "a", "l", "s", "e">> THEN Bool(FALSE)
    ELSE IF value = <<"N", "o", "n", "e">> THEN Null
    ELSE IF \/ (StartsWith(value, <<"\"">>) /\ EndsWith(value, <<"\"">>))
            \/ (StartsWith(value, <<"'">>) /\ EndsWith(value, <<"'">>))
         THEN Str(SubSeq(value, 2, Len(value) - 1))
    ELSE IF IsIntegerLiteral(value) THEN Num(parseInt(value))
    ELSE IF IsDecimalAt(value, IndexFrom(value, 1, "."))
         THEN parseFloatAt(value, IndexFrom(value, 1, "."))
    ELSE Str(value)

parseValue(v) == parseTrimmedValue(Trim(v))

\* one iteration of the scan of splitArguments: the state after character char
splitArgumentsStep(st, char) ==
    IF ~st.inQuotes /\ (char = "\"" \/ char = "'")
    THEN [st EXCEPT !.current = Append(@, char), !.inQuotes = TRUE,
                    !.quoteChar = char]
    ELSE IF st.inQuotes /\ char = st.quoteChar
    THEN [st EXCEPT !.current = Append(@, char), !.inQuotes = FALSE,
                    !.quoteChar = ""]
    ELSE IF ~st.inQuotes /\ char = "("
    THEN [st EXCEPT !.current = Append(@, char), !.parenDepth = @ + 1]
    ELSE IF ~st.inQuotes /\ char = ")"
    THEN [st EXCEPT !.current = Append(@, char), !.parenDepth = @ - 1]
    ELSE IF ~st.inQuotes /\ char = "," /\ st.parenDepth = 0
    THEN [st EXCEPT !.args = Append(@, st.current), !.current = <<>>]
    ELSE [st EXCEPT !.current = Append(@, char)]

RECURSIVE splitArgumentsScan(_, _, _)
splitArgumentsScan(argsString, k, st) ==
    IF k > Len(argsString) THEN st
    ELSE splitArgumentsScan(argsString, k + 1, splitArgumentsStep(st, argsString[k]))

\* if (current.trim()) args.push(current)
splitArgumentsEnd(st) ==
    IF Trim(st.current) # <<>> THEN Append(st.args, st.current) ELSE st.args

splitArguments(argsString) ==
    splitArgumentsEnd(splitArgumentsScan(argsString, 1,
        [args |-> <<>>, current |-> <<>>, inQuotes |-> FALSE,
         quoteChar |-> "", parenDepth |-> 0]))

\* const [key, value] = arg.split('=', 2) on the pieces of the split: value is
\* undefined when there are fewer than two pieces, and value.trim() then
\* throws a TypeError
KeyValueOf(pieces) ==
    IF Len(pieces) < 2
    THEN [threw |-> TRUE, key |-> <<>>, value |-> Undefined]
    ELSE [threw |-> FALSE, key |-> Trim(pieces[1]),
          value |-> parseValue(Trim(pieces[2]))]

KeyValue(arg) == KeyValueOf(SplitLimit(arg, "=", 2))

\* the guard dropped: every argument is taken for a key=value pair
IsKeyValueUnguarded(arg) == TRUE

\* the guard of the key=value branch: arg.includes('=')
IsKeyValue(arg) == Includes(arg, <<"=">>)

\* properties[key.trim()] = this.parseValue(value.trim())
SetKeyValue(acc, kv) ==
    IF kv.threw THEN [acc EXCEPT !.threw = TRUE]
    ELSE [acc EXCEPT !.properties = Put(@, kv.key, kv.value)]

\* the body of the loop of parseProperties for the argument trimmed
parsePropertiesStep(acc, trimmed) ==
    IF IsKeyValue(trimmed) THEN SetKeyValue(acc, KeyValue(trimmed)) ELSE acc

RECURSIVE parsePropertiesLoop(_, _, _)
parsePropertiesLoop(args, k, acc) ==
    IF k > Len(args) \/ acc.threw THEN acc
    ELSE parsePropertiesLoop(args, k + 1, parsePropertiesStep(acc, Trim(args[k])))

parseProperties(argsString) ==
    IF Trim(argsString) = <<>>
    THEN [threw |-> FALSE, properties |-> EmptyObject]
    ELSE parsePropertiesLoop(splitArguments(argsString), 1,
                             [threw |-> FALSE, properties |-> EmptyObject])

parseLayoutOptions(argsString) == parseProperties(argsString)

\* the body of the loop of parseArguments for the k-th argument arg;
\* parent is <<>> when no parent was recorded (the field stays undefined)
parseArgumentsStep(acc, arg, k) ==
    IF IsKeyValue(arg) THEN SetKeyValue(acc, KeyValue(arg))
    ELSE IF k = 1 THEN [acc EXCEPT !.parent = arg]
    ELSE acc

RECURSIVE parseArgumentsLoop(_, _, _)
parseArgumentsLoop(args, k, acc) ==
    IF k > Len(args) \/ acc.threw THEN acc
    ELSE parseArgumentsLoop(args, k + 1, parseArgumentsStep(acc, Trim(args[k]), k))

parseArguments(argsString) ==
    IF Trim(argsString) = <<>>
    THEN [threw |-> FALSE, parent |-> <<>>, properties |-> EmptyObject]
    ELSE parseArgumentsLoop(splitArguments(argsString), 1,
             [threw |-> FALSE, parent |-> <<>>, properties |-> EmptyObject])

---------------------------------------------------------------------------
(* TkinterParser: the regular expressions.  A position is an index into    *)
(* the line, 0 once the match has failed.  A match is the array            *)
(* <<whole, group1, ...>>; a failed match (null) is <<>>.                  *)

\* \w+ at p: the position after it
Word(s, p) ==
    IF p = 0 \/ p > Len(s) THEN 0
    ELSE IF RunEnd(s, p, WordChars) > p THEN RunEnd(s, p, WordChars) ELSE 0

\* \s* at p
Spaces(s, p) == IF p = 0 THEN 0 ELSE RunEnd(s, p, WhiteSpace)

\* one character of the class cls at p
Char(s, p, cls) == IF p # 0 /\ p <= Len(s) /\ s[p] \in cls THEN p + 1 ELSE 0

\* the literal lit at p
Lit(s, p, lit) == IF p # 0 /\ HasAt(s, p, lit) THEN p + Len(lit) ELSE 0

\* [^c]*c at p: greedy, so it ends at the first c
Through(s, p, c) ==
    IF p = 0 \/ IndexFrom(s, p, c) = 0 THEN 0 ELSE IndexFrom(s, p, c) + 1

\* (\w+)\s*\( at p: the position after the parenthesis
CallOpen(s, p) == Char(s, Spaces(s, Word(s, p)), {"("})

\* (\w+)\s*\(([^)]*)\) at p: the position after the match
CallEnd(s, p) == Through(s, CallOpen(s, p), ")")

\* the match array of (\w+)\s*\(([^)]*)\) at p, the match starting at 1
CallAt(s, p) ==
    IF CallEnd(s, p) = 0 THEN <<>>
    ELSE <<SubSeq(s, 1, CallEnd(s, p) - 1),
           SubSeq(s, p, Word(s, p) - 1),
           SubSeq(s, CallOpen(s, p), CallEnd(s, p) - 2)>>

\* the first alternative that leads to a match
FirstMatch(alternatives) ==
    IF alternatives[1] # <<>> THEN alternatives[1]
    ELSE IF alternatives[2] # <<>> THEN alternatives[2]
    ELSE alternatives[3]

\* (?:tk\.|tkinter\.)?(\w+)\s*\(([^)]*)\) at p: the alternatives are tried in
\* order, the empty one last
PrefixedCallAt(s, p) ==
    FirstMatch(<<CallAt(s, Lit(s, p, <<"t", "k", ".">>)),
                 CallAt(s, Lit(s, p, <<"t", "k", "i", "n", "t", "e", "r", ".">>)),
                 CallAt(s, p)>>)

\* ^(\w+)\s*=\s* : the position after it
AssignmentHead(s) == Spaces(s, Char(s, Spaces(s, Word(s, 1)), {"="}))

\* the match array of ^(\w+) followed by the groups of the match rest
WithFirstWord(s, rest) ==
    IF rest = <<>> THEN <<>>
    ELSE <<rest[1], SubSeq(s, 1, Word(s, 1) - 1)>> \o Tail(rest)

\* /^(\w+)\s*=\s*(?:tk\.|tkinter\.)?(\w+)\s*\(([^)]*)\)/
PatternQualified(s) == WithFirstWord(s, PrefixedCallAt(s, AssignmentHead(s)))

\* /^(\w+)\s*=\s*(\w+)\s*\(([^)]*)\)/
PatternDirect(s) == WithFirstWord(s, CallAt(s, AssignmentHead(s)))

\* /^(?:tk\.|tkinter\.)?(\w+)\s*\(([^)]*)\)/
PatternBare(s) == PrefixedCallAt(s, 1)

\* /^(\w+)\.(\w+)\s*\(([^)]*)\)/
PatternMethod(s) == WithFirstWord(s, CallAt(s, Char(s, Word(s, 1), {"."})))

\* ^(\w+)\.config\s*\( : the position after the parenthesis
ConfigOpen(s) ==
    Char(s, Spaces(s, Lit(s, Word(s, 1), <<".", "c", "o", "n", "f", "i", "g">>)),
         {"("})

\* /^(\w+)\.config\s*\(([^)]*)\)/
PatternConfig(s) ==
    IF Through(s, ConfigOpen(s), ")") = 0 THEN <<>>
    ELSE <<SubSeq(s, 1, Through(s, ConfigOpen(s), ")") - 1),
           SubSeq(s, 1, Word(s, 1) - 1),
           SubSeq(s, ConfigOpen(s), Through(s, ConfigOpen(s), ")") - 2)>>

\* ^(\w+)\s*\[\s*['"] : the position after the quote
SubscriptKey(s) ==
    Char(s, Spaces(s, Char(s, Spaces(s, Word(s, 1)), {"["})), {"'", "\""})

\* ['"]\s*\]\s*= at p: the position after the equals sign
SubscriptClose(s, p) ==
    Char(s, Spaces(s, Char(s, Spaces(s, Char(s, p, {"'", "\""})), {"]"})), {"="})

\* \s*(.+) at p: the start of the group; the greedy \s* gives back one blank
\* when nothing else is left
RestOfLine(s, p) ==
    IF p = 0 \/ p > Len(s) THEN 0
    ELSE IF RunEnd(s, p, WhiteSpace) <= Len(s) THEN RunEnd(s, p, WhiteSpace)
    ELSE Len(s)

\* the match array of the subscript pattern whose key starts at k
SubscriptAt(s, k) ==
    IF RestOfLine(s, SubscriptClose(s, Word(s, k))) = 0 THEN <<>>
    ELSE <<s, SubSeq(s, 1, Word(s, 1) - 1), SubSeq(s, k, Word(s, k) - 1),
           SubSeq(s, RestOfLine(s, SubscriptClose(s, Word(s, k))), Len(s))>>

\* /^(\w+)\s*\[\s*['"](\w+)['"]\s*\]\s*=\s*(.+)/
PatternSubscript(s) == SubscriptAt(s, SubscriptKey(s))

---------------------------------------------------------------------------
(* TkinterParser: statements *)

\* a TkinterWidget object; name, parent and layoutManager are <<>> when the
\* field is undefined, children holds indices into the widget list
NewWidget(type, name, lineNumber) ==
    [type |-> type, name |-> name, parent |-> <<>>,
     properties |-> EmptyObject, children |-> <<>>,
     layoutManager |-> <<>>, hasLayoutOptions |-> FALSE,
     layoutOptions |-> EmptyObject, line |-> lineNumber]

NoWidget == [found |-> FALSE, threw |-> FALSE, widget |-> NewWidget(<<>>, <<>>, 0)]

\* if (args.parent) widget.parent = args.parent; widget.properties = args.properties
WithArguments(widget, args) ==
    [found |-> TRUE, threw |-> args.threw,
     widget |-> [widget EXCEPT !.parent = args.parent,
                               !.properties = args.properties]]

\* the body of the pattern loop once the groups are named
WidgetOf(widgetType, widgetName, argsString, lineNumber) ==
    IF widgetType \notin supportedWidgets THEN NoWidget
    ELSE IF Trim(argsString) = <<>>
    THEN [found |-> TRUE, threw |-> FALSE,
          widget |-> NewWidget(widgetType, widgetName, lineNumber)]
    ELSE WithArguments(NewWidget(widgetType, widgetName, lineNumber),
                       parseArguments(argsString))

\* hasAssignment = match.length > 3
WidgetOfMatch(match, lineNumber) ==
    IF match = <<>> THEN NoWidget
    ELSE IF Len(match) > 3
    THEN WidgetOf(match[3], match[2], match[4], lineNumber)
    ELSE WidgetOf(match[2], <<>>, match[3], lineNumber)

\* the first pattern that matches with a supported widget type
FirstFound(candidates) ==
    IF candidates[1].found THEN candidates[1]
    ELSE IF candidates[2].found THEN candidates[2]
    ELSE candidates[3]

parseWidgetCreation(line, lineNumber) ==
    FirstFound(<<WidgetOfMatch(PatternQualified(line), lineNumber),
                 WidgetOfMatch(PatternDirect(line), lineNumber),
                 WidgetOfMatch(PatternBare(line), lineNumber)>>)

\* the layout manager recorded without the options of the call
SetLayoutWithoutOptions(ws, w, method, options) ==
    [matched |-> TRUE, threw |-> options.threw,
     widgets |-> [ws EXCEPT ![w] = [@ EXCEPT !.layoutManager = method]]]

\* widget.layoutManager = method; widget.layoutOptions = parseLayoutOptions(args)
SetLayout(ws, w, method, options) ==
    [matched |-> TRUE, threw |-> options.threw,
     widgets |-> [ws EXCEPT ![w] = [@ EXCEPT !.layoutManager = method,
                                             !.hasLayoutOptions = TRUE,
                                             !.layoutOptions = options.properties]]]

NoMatch(ws) == [matched |-> FALSE, threw |-> FALSE, widgets |-> ws]

\* parseLayoutManager given the match of its pattern
LayoutOfMatch(match, ws, vmap) ==
    IF match # <<>> /\ match[3] \in layoutManagers /\ match[2] \in DOMAIN vmap
    THEN SetLayout(ws, vmap[match[2]], match[3], parseLayoutOptions(match[4]))
    ELSE NoMatch(ws)

\* returns the widget list after the call and the boolean result
parseLayoutManager(line, ws, vmap) == LayoutOfMatch(PatternMethod(line), ws, vmap)

\* Object.assign(widget.properties, properties)
AssignProperties(ws, w, properties) ==
    [matched |-> TRUE, threw |-> properties.threw,
     widgets |-> [ws EXCEPT ![w].properties = ObjectAssign(@, properties.properties)]]

\* widget.properties[property] = this.parseValue(value)
SetProperty(ws, w, property, value) ==
    [matched |-> TRUE, threw |-> FALSE,
     widgets |-> [ws EXCEPT ![w].properties = Put(@, property, value)]]

\* parsePropertyAssignment given the matches of its two patterns
AssignmentOfMatch(config, dict, ws, vmap) ==
    IF config # <<>> /\ config[2] \in DOMAIN vmap
    THEN AssignProperties(ws, vmap[config[2]], parseProperties(config[3]))
    ELSE IF dict # <<>> /\ dict[2] \in DOMAIN vmap
    THEN SetProperty(ws, vmap[dict[2]], dict[3], parseValue(Trim(dict[4])))
    ELSE NoMatch(ws)

parsePropertyAssignment(line, ws, vmap) ==
    AssignmentOfMatch(PatternConfig(line), PatternSubscript(line), ws, vmap)

RECURSIVE extractImports(_)
extractImports(ls) ==
    IF Len(ls) = 0 THEN <<>>
    ELSE LET trimmed == Trim(Head(ls))
         IN  (IF \/ Includes(trimmed, <<"t", "k", "i", "n", "t", "e", "r">>)
                 \/ Includes(trimmed, <<"T", "k", "i", "n", "t", "e", "r">>)
              THEN <<trimmed>> ELSE <<>>) \o extractImports(Tail(ls))

\* Array.prototype.unshift in place of push
PushChildFirst(children, child) == <<child>> \o children

\* Array.prototype.push on the children of the parent object
PushChild(children, child) == Append(children, child)

\* the loop of buildHierarchy from widget k on; acc holds the widget list with
\* the children pushed so far and the roots collected so far
RECURSIVE buildHierarchyLoop(_, _, _)
buildHierarchyLoop(k, vmap, acc) ==
    IF k > Len(acc.widgets) THEN acc
    ELSE LET widget == acc.widgets[k]
         IN  IF widget.parent # <<>> /\ widget.parent \in DOMAIN vmap
             THEN buildHierarchyLoop(k + 1, vmap,
                      [acc EXCEPT !.widgets[vmap[widget.parent]].children =
                                      PushChild(@, k)])
             ELSE buildHierarchyLoop(k + 1, vmap,
                      [acc EXCEPT !.roots = Append(@, k)])

buildHierarchy(ws, vmap) ==
    buildHierarchyLoop(1, vmap, [widgets |-> ws, roots |-> <<>>])

---------------------------------------------------------------------------
(* TkinterParser.parse as a state machine: one step per loop iteration *)

EmptyResult == [widgets |-> <<>>, imports |-> <<>>, hasErrors |-> FALSE, errors |-> <<>>]

\* the catch block of parse
Caught(res) ==
    [res EXCEPT !.hasErrors = TRUE, !.errors = Append(@, "Parsing error")]

CurrentLine == Trim(lines[i])

Scanning == pc = "scan" /\ i <= Len(lines)

IsSkipped(trimmedLine) == StartsWith(trimmedLine, <<"#">>) \/ trimmedLine = <<>>

\* const lines = pythonCode.split('\n'); result.imports = this.extractImports(lines)
ParseBegin ==
    /\ pc = "start"
    /\ lines' = SplitAll(pythonCode, "\n")
    /\ result' = [result EXCEPT !.imports = extractImports(lines')]
    /\ i' = 1
    /\ pc' = "scan"
    /\ UNCHANGED <<pythonCode, widgets, variableMap>>
    /\ UNCHANGED outsideParser

\* comment or blank line: continue
ScanSkip ==
    /\ Scanning
    /\ IsSkipped(CurrentLine)
    /\ i' = i + 1
    /\ UNCHANGED <<pythonCode, lines, pc, widgets, variableMap, result>>
    /\ UNCHANGED outsideParser

\* widgets.push(widgetMatch); if (widgetMatch.name) variableMap.set(...); or
\* the catch block when parsing the arguments threw
PushWidget(widgetMatch) ==
    IF widgetMatch.threw
    THEN /\ result' = Caught(result)
         /\ pc' = "done"
         /\ UNCHANGED <<i, widgets, variableMap>>
    ELSE /\ widgets' = Append(widgets, widgetMatch.widget)
         /\ variableMap' =
              IF widgetMatch.widget.name # <<>>
              THEN Put(variableMap, widgetMatch.widget.name, Len(widgets) + 1)
              ELSE variableMap
         /\ i' = i + 1
         /\ UNCHANGED <<pc, result>>

\* the widget list after a layout or property statement, or the catch block
StoreWidgets(outcome) ==
    IF outcome.threw
    THEN /\ result' = Caught(result)
         /\ pc' = "done"
         /\ UNCHANGED <<i, widgets>>
    ELSE /\ widgets' = outcome.widgets
         /\ i' = i + 1
         /\ UNCHANGED <<pc, result>>

\* parseWidgetCreation matched: push the widget and register its name
ScanWidgetCreation ==
    /\ Scanning
    /\ ~IsSkipped(CurrentLine)
    /\ parseWidgetCreation(CurrentLine, i).found
    /\ PushWidget(parseWidgetCreation(CurrentLine, i))
    /\ UNCHANGED <<pythonCode, lines>>
    /\ UNCHANGED outsideParser

\* parseLayoutManager matched: the layout info is applied to the widget
ScanLayoutManager ==
    /\ Scanning
    /\ ~IsSkipped(CurrentLine)
    /\ ~parseWidgetCreation(CurrentLine, i).found
    /\ parseLayoutManager(CurrentLine, widgets, variableMap).matched
    /\ StoreWidgets(parseLayoutManager(CurrentLine, widgets, variableMap))
    /\ UNCHANGED <<pythonCode, lines, variableMap>>
    /\ UNCHANGED outsideParser

\* otherwise parsePropertyAssignment is called and its result ignored
ScanPropertyAssignment ==
    /\ Scanning
    /\ ~IsSkipped(CurrentLine)
    /\ ~parseWidgetCreation(CurrentLine, i).found
    /\ ~parseLayoutManager(CurrentLine, widgets, variableMap).matched
    /\ StoreWidgets(parsePropertyAssignment(CurrentLine, widgets, variableMap))
    /\ UNCHANGED <<pythonCode, lines, variableMap>>
    /\ UNCHANGED outsideParser

\* third pass and return
BuildHierarchy ==
    /\ pc = "scan"
    /\ i > Len(lines)
    /\ LET built == buildHierarchy(widgets, variableMap)
       IN  /\ widgets' = built.widgets
           /\ result' = [result EXCEPT !.widgets = built.roots]
    /\ pc' = "done"
    /\ UNCHANGED <<pythonCode, lines, i, variableMap>>
    /\ UNCHANGED outsideParser

---------------------------------------------------------------------------
(* Source texts: every program of at most MaxLines lines over these lines  *)

\* r = tk.Tk()
lineTk ==
    <<"r", " ", "=", " ", "t", "k", ".", "T", "k", "(", ")">>
\*   f = Frame(r)
lineFrame ==
    <<" ", " ", "f", " ", "=", " ", "F", "r", "a", "m", "e", "(", "r",
      ")">>
\* f = Label(f, text="Hi")
lineLabelSelf ==
    <<"f", " ", "=", " ", "L", "a", "b", "e", "l", "(", "f", ",", " ",
      "t", "e", "x", "t", "=", "\"", "H", "i", "\"", ")">>
\* b = Button(f, text='a,b')
lineButton ==
    <<"b", " ", "=", " ", "B", "u", "t", "t", "o", "n", "(", "f", ",",
      " ", "t", "e", "x", "t", "=", "'", "a", ",", "b", "'", ")">>
\* tkinter.Entry(r, width=20)
lineBare ==
    <<"t", "k", "i", "n", "t", "e", "r", ".", "E", "n", "t", "r", "y",
      "(", "r", ",", " ", "w", "i", "d", "t", "h", "=", "2", "0", ")">>
\* f.grid(row=1, column=2)
lineGrid ==
    <<"f", ".", "g", "r", "i", "d", "(", "r", "o", "w", "=", "1", ",",
      " ", "c", "o", "l", "u", "m", "n", "=", "2", ")">>
\* f['text'] = None
lineSubscript ==
    <<"f", "[", "'", "t", "e", "x", "t", "'", "]", " ", "=", " ", "N",
      "o", "n", "e">>
\* # r = tk.Tk()
lineComment ==
    <<"#", " ", "r", " ", "=", " ", "t", "k", ".", "T", "k", "(", ")">>
\* x = tk.Spam(r)
lineUnknown ==
    <<"x", " ", "=", " ", "t", "k", ".", "S", "p", "a", "m", "(", "r",
      ")">>
\* f.grid(row=1
lineBroken ==
    <<"f", ".", "g", "r", "i", "d", "(", "r", "o", "w", "=", "1">>

\* f.config(text="a=b", width=5)
lineConfig ==
    <<"f", ".", "c", "o", "n", "f", "i", "g", "(", "t", "e", "x", "t",
      "=", "\"", "a", "=", "b", "\"", ",", " ", "w", "i", "d", "t",
      "h", "=", "5", ")">>

SourceLines ==
    {lineTk, lineFrame, lineLabelSelf, lineButton, lineBare, lineGrid,
     lineConfig, lineSubscript, lineComment, lineUnknown, lineBroken}

Programs == UNION {[1..n -> SourceLines] : n \in 0..MaxLines}

\* the engine before any call
EngineIdle ==
    /\ heap = <<>>
    /\ forest = <<>>
    /\ before = <<>>
    /\ modifiedWidgets = <<>>
    /\ appliedRules = <<>>
    /\ warnings = <<>>
    /\ bpc = "idle"
    /\ cursor = 0
    /\ round = 0

\* no conversion has been asked for
NoConversion == [html |-> <<>>, css |-> "", hasErrors |-> FALSE, errors |-> <<>>]

\* updateWebview() of the constructor: the welcome text, made from no file
Welcome == [request |-> 0, uri |-> "", content |-> 0]

PanelIdle ==
    /\ disk = <<>>
    /\ autoRefresh = FALSE
    /\ active = FALSE
    /\ changeReads = {}
    /\ updateTimeouts = {}
    /\ timers = <<>>
    /\ currentPythonFile = ""
    /\ live = {}
    /\ currentPanel = 0
    /\ restorable = 0
    /\ messages = {}
    /\ reads = <<>>
    /\ requested = 0
    /\ webview = <<>>

ConverterIdle ==
    /\ idCounter = 0
    /\ errors = <<>>
    /\ html = <<>>
    /\ thrown = ""
    /\ conversion = NoConversion
    /\ cpc = "idle"
    /\ callCount = 0
    /\ returned = <<>>

ParseInit ==
    /\ pythonCode \in {JoinLines(p) : p \in Programs}
    /\ lines = <<>>
    /\ i = 0
    /\ pc = "start"
    /\ widgets = <<>>
    /\ variableMap = EmptyObject
    /\ result = EmptyResult
    /\ EngineIdle
    /\ ConverterIdle
    /\ PanelIdle

ParseNext ==
    \/ ParseBegin
    \/ ScanSkip
    \/ ScanWidgetCreation
    \/ ScanLayoutManager
    \/ ScanPropertyAssignment
    \/ BuildHierarchy

Init == ParseInit

Next == ParseNext

Spec == Init /\ [][Next]_vars

---------------------------------------------------------------------------
(* JavaScript operators the behaviour engine relies on *)

\* obj.key: undefined when the object has no such key
Get(obj, key) == IF key \in DOMAIN obj THEN obj[key] ELSE Undefined

\* ToBoolean: "", 0, false, null, NaN and undefined are falsy
Truthy(v) ==
    CASE v.t = "str" -> v.s # <<>>
      [] v.t = "num" -> v.n # 0
      [] v.t = "bool" -> v.n = 1
      [] OTHER -> FALSE

\* a || b
OrElse(a, b) == IF Truthy(a) THEN a ELSE b

\* typeof v === 'number'
IsNumber(v) == v.t \in {"num", "nan"}

RECURSIVE Pow10(_)
Pow10(e) == IF e = 0 THEN 1 ELSE 10 * Pow10(e - 1)

DigitChar(d) == CHOOSE c \in Digits : DigitValue(c) = d

\* the decimal digits of a natural number
RECURSIVE IntToDigits(_)
IntToDigits(n) ==
    IF n < 10 THEN <<DigitChar(n)>>
    ELSE Append(IntToDigits(n \div 10), DigitChar(n % 10))

\* the e fractional digits of m / 10^e
RECURSIVE FractionDigits(_, _)
FractionDigits(m, e) ==
    IF e = 0 THEN <<>>
    ELSE Append(FractionDigits(m \div 10, e - 1), DigitChar(m % 10))

\* String(m / 10^e) for m >= 0
UnsignedToString(m, e) ==
    IF e = 0 THEN IntToDigits(m)
    ELSE IntToDigits(m \div Pow10(e)) \o <<".">> \o FractionDigits(m % Pow10(e), e)

\* String(v), as in template literals and string concatenation
StringOf(v) ==
    CASE v.t = "str" -> v.s
      [] v.t = "num" ->
            IF v.n < 0 THEN <<"-">> \o UnsignedToString(0 - v.n, v.e)
            ELSE UnsignedToString(v.n, v.e)
      [] v.t = "bool" ->
            IF v.n = 1 THEN <<"t", "r", "u", "e">>
            ELSE <<"f", "a", "l", "s", "e">>
      [] v.t = "null" -> <<"n", "u", "l", "l">>
      [] v.t = "nan" -> <<"N", "a", "N">>
      [] OTHER -> <<"u", "n", "d", "e", "f", "i", "n", "e", "d">>

\* Number(s) for a trimmed string: "" is 0, a decimal literal is its value,
\* anything else is NaN (hexadecimal, exponent and Infinity forms are not modelled)
StringToNumber(t) ==
    IF t = <<>> THEN Num(0)
    ELSE IF IsIntegerLiteral(t) THEN Num(parseInt(t))
    ELSE IF IsDecimalAt(t, IndexFrom(t, 1, "."))
         THEN parseFloatAt(t, IndexFrom(t, 1, "."))
    ELSE NaN

\* ToNumber
ToNumber(v) ==
    CASE v.t = "num" -> v
      [] v.t = "bool" -> Num(v.n)
      [] v.t = "null" -> Num(0)
      [] v.t = "str" -> StringToNumber(Trim(v.s))
      [] OTHER -> NaN

\* x + y on numbers
AddNumbers(x, y) ==
    IF x.t = "nan" \/ y.t = "nan" THEN NaN
    ELSE IF x.e >= y.e THEN Decimal(x.n + y.n * Pow10(x.e - y.e), x.e)
    ELSE Decimal(x.n * Pow10(y.e - x.e) + y.n, y.e)

\* a + b: concatenation when either operand is a string
Plus(a, b) ==
    IF a.t = "str" \/ b.t = "str" THEN Str(StringOf(a) \o StringOf(b))
    ELSE AddNumbers(ToNumber(a), ToNumber(b))

\* a * k for an integer k
Times(a, k) ==
    IF ToNumber(a).t = "nan" THEN NaN
    ELSE Decimal(ToNumber(a).n * k, ToNumber(a).e)

\* x >= y on numbers that are not NaN
AtLeast(x, y) == x.n * Pow10(y.e) >= y.n * Pow10(x.e)

MaxNumbers(x, y) ==
    IF x.t = "nan" \/ y.t = "nan" THEN NaN
    ELSE IF AtLeast(x, y) THEN x ELSE y

\* Math.max(a, b)
MathMax(a, b) == MaxNumbers(ToNumber(a), ToNumber(b))

\* v.length: defined on strings only
LengthOf(v) == IF v.t = "str" THEN Num(Len(v.s)) ELSE Undefined

\* parseInt(s): optional blanks, optional sign, then the leading digits
ParseIntDigits(s, p) ==
    IF RunEnd(s, p, Digits) = p THEN NaN
    ELSE Num(DigitsToInt(SubSeq(s, p, RunEnd(s, p, Digits) - 1)))

ParseIntSigned(s, p) ==
    IF p <= Len(s) /\ s[p] = "-"
    THEN Times(ParseIntDigits(s, p + 1), -1)
    ELSE IF p <= Len(s) /\ s[p] = "+" THEN ParseIntDigits(s, p + 1)
    ELSE ParseIntDigits(s, p)

ParseIntPrefix(s) == ParseIntSigned(s, RunEnd(s, 1, WhiteSpace))

\* JSON.stringify then JSON.parse of a value: NaN comes back as null
JsonValue(v) == IF v.t = "nan" THEN Null ELSE v

\* the same for an object: keys holding undefined are dropped
JsonObject(obj) ==
    [k \in {x \in DOMAIN obj : obj[x].t # "undefined"} |-> JsonValue(obj[k])]

---------------------------------------------------------------------------
(* TkinterBehaviorEngine: the passes as functions of the engine state      *)
(* st = [heap, appliedRules, warnings]                                     *)

sTop == <<"t", "o", "p">>
sBottom == <<"b", "o", "t", "t", "o", "m">>
sLeft == <<"l", "e", "f", "t">>
sRight == <<"r", "i", "g", "h", "t">>
sNone == <<"n", "o", "n", "e">>
sBoth == <<"b", "o", "t", "h">>
sGroove == <<"g", "r", "o", "o", "v", "e">>
sRaised == <<"r", "a", "i", "s", "e", "d">>
sSunken == <<"s", "u", "n", "k", "e", "n">>
sFlat == <<"f", "l", "a", "t">>
sWhite == <<"w", "h", "i", "t", "e">>
sGrey == <<"#", "f", "0", "f", "0", "f", "0">>

\* this.appliedRules.push(...) and this.warnings.push(...): a message is its
\* fixed text and the values interpolated into it
Rule(st, text, args) ==
    [st EXCEPT !.appliedRules = Append(@, [text |-> text, args |-> args])]
Warn(st, text, args) ==
    [st EXCEPT !.warnings = Append(@, [text |-> text, args |-> args])]

\* widget.properties[key] = value on the widget with reference id
SetProperties(st, id, key, value) ==
    [st EXCEPT !.heap[id].properties = Put(@, key, value)]

\* the references of a forest in the order the recursive passes visit them
RECURSIVE PreOrder(_, _)
PreOrder(h, ids) ==
    IF ids = <<>> THEN <<>>
    ELSE <<Head(ids)>> \o PreOrder(h, h[Head(ids)].children)
                       \o PreOrder(h, Tail(ids))

\* for (const id of ids) st = Pass(st, id)
RECURSIVE ForEach(_, _, _)
ForEach(Pass(_, _), st, ids) ==
    IF ids = <<>> THEN st
    ELSE ForEach(Pass, Pass(st, Head(ids)), Tail(ids))

\* JSON.parse(JSON.stringify(widget)): a new object per visited object
JsonWidget(widget, children) ==
    [widget EXCEPT !.properties = JsonObject(@),
                   !.layoutOptions = JsonObject(@),
                   !.children = children]

RECURSIVE CopyList(_, _)
RECURSIVE CopyWidget(_, _)
CopyAllocate(h, id, copied) ==
    [heap |-> Append(copied.heap, JsonWidget(h[id], copied.ids)),
     id |-> Len(copied.heap) + 1]
CopyWidget(h, id) == CopyAllocate(h, id, CopyList(h, h[id].children))
CopyPrepend(first, rest) ==
    [heap |-> rest.heap, ids |-> <<first.id>> \o rest.ids]
CopyRest(first, ids) == CopyPrepend(first, CopyList(first.heap, ids))
CopyList(h, ids) ==
    IF ids = <<>> THEN [heap |-> h, ids |-> <<>>]
    ELSE CopyRest(CopyWidget(h, Head(ids)), Tail(ids))

\* a copy that returns the caller's own objects
deepCopyWidgetsShared(h, ids) == [heap |-> h, ids |-> ids]

\* deepCopyWidgets: [heap, ids] with the copies appended to the heap
deepCopyWidgets(h, ids) == CopyList(h, ids)

\* convertToPixels
convertToPixels(size) ==
    IF IsNumber(size) THEN size
    ELSE OrElse(ParseIntPrefix(StringOf(size)), Num(0))

\* estimateWidgetWidth
estimateWidgetWidth(widget) ==
    IF Truthy(Get(widget.properties, kWidth))
    THEN convertToPixels(Get(widget.properties, kWidth))
    ELSE CASE widget.type = wLabel ->
                MathMax(Times(LengthOf(OrElse(Get(widget.properties, kText),
                                              Str(<<>>))), 8),
                        Num(50))
           [] widget.type = wButton ->
                MathMax(Plus(Times(LengthOf(OrElse(Get(widget.properties, kText),
                                                   Str(wButton))), 8),
                             Num(24)),
                        Num(75))
           [] widget.type = wEntry -> Num(150)
           [] widget.type = wText -> Num(200)
           [] OTHER -> Num(100)

\* estimateWidgetHeight
estimateWidgetHeight(widget) ==
    IF Truthy(Get(widget.properties, kHeight))
    THEN convertToPixels(Get(widget.properties, kHeight))
    ELSE CASE widget.type \in {wLabel, wButton, wEntry} -> Num(30)
           [] widget.type = wText -> Num(100)
           [] widget.type = wListbox -> Num(80)
           [] OTHER -> Num(25)

\* child.layoutOptions?.side || 'top'
PackSide(child) ==
    IF child.hasLayoutOptions
    THEN OrElse(Get(child.layoutOptions, kSide), Str(sTop))
    ELSE Str(sTop)

\* one iteration of the loop over the children in estimateWindowSize
estimateChild(size, child) ==
    IF child.layoutManager = wpack /\ PackSide(child) \in {Str(sTop), Str(sBottom)}
    THEN [width |-> MathMax(size.width, estimateWidgetWidth(child)),
          height |-> Plus(size.height, estimateWidgetHeight(child))]
    ELSE IF child.layoutManager = wpack
    THEN [width |-> Plus(size.width, estimateWidgetWidth(child)),
          height |-> MathMax(size.height, estimateWidgetHeight(child))]
    ELSE [width |-> MathMax(size.width, estimateWidgetWidth(child)),
          height |-> MathMax(size.height, estimateWidgetHeight(child))]

RECURSIVE estimateChildren(_, _, _)
estimateChildren(h, ids, size) ==
    IF ids = <<>> THEN size
    ELSE estimateChildren(h, Tail(ids), estimateChild(size, h[Head(ids)]))

\* the padding and the minimum size
estimatePadded(size) ==
    [width |-> MathMax(Plus(size.width, Num(40)), Num(200)),
     height |-> MathMax(Plus(size.height, Num(60)), Num(150))]

\* estimateWindowSize
estimateWindowSize(h, widget) ==
    IF Len(widget.children) = 0 THEN [width |-> Num(200), height |-> Num(100)]
    ELSE estimatePadded(estimateChildren(h, widget.children,
                                         [width |-> Num(0), height |-> Num(0)]))

\* root window: width and height from the estimate
SetEstimatedSize(st, id, size) ==
    Rule(SetProperties(SetProperties(st, id, kWidth, size.width),
                       id, kHeight, size.height),
         "Applied estimated size to root window", <<size.width, size.height>>)

\* if (!widget.properties.width && !widget.properties.height) { ... }
RootWindowSize(st, id) ==
    IF /\ ~Truthy(Get(st.heap[id].properties, kWidth))
       /\ ~Truthy(Get(st.heap[id].properties, kHeight))
    THEN SetEstimatedSize(st, id, estimateWindowSize(st.heap, st.heap[id]))
    ELSE st

\* if (!widget.properties.title) { ... }
RootWindowTitle(st, id) ==
    IF ~Truthy(Get(st.heap[id].properties, kTitle))
    THEN Rule(SetProperties(st, id, kTitle,
                            IF st.heap[id].type = wTk THEN Str(wTk)
                            ELSE Str(wToplevel)),
              "Applied default window title", <<>>)
    ELSE st

\* the body of the loop of applyRootWindowBehaviors; applyBehaviorsRecursively
\* only walks the children
RootWindow(st, id) ==
    IF st.heap[id].type \in {wTk, wToplevel}
    THEN SetProperties(RootWindowTitle(RootWindowSize(st, id), id),
                       id, kIsRoot, Bool(TRUE))
    ELSE st

\* applyRootWindowBehaviors: the top-level widgets only
applyRootWindowBehaviors(st, roots) == ForEach(RootWindow, st, roots)

FrameAutoSize(st, id) ==
    IF /\ ~Truthy(Get(st.heap[id].properties, kWidth))
       /\ ~Truthy(Get(st.heap[id].properties, kHeight))
    THEN Rule(SetProperties(st, id, kAutoSize, Bool(TRUE)),
              "Applied auto-sizing to frame", <<>>)
    ELSE st

FrameRelief(st, id) ==
    IF /\ st.heap[id].type = wLabelFrame
       /\ ~Truthy(Get(st.heap[id].properties, kRelief))
    THEN Rule(SetProperties(SetProperties(st, id, kRelief, Str(sGroove)),
                            id, kBorderwidth,
                            OrElse(Get(st.heap[id].properties, kBd), Num(2))),
              "Applied default LabelFrame relief", <<>>)
    ELSE st

FramePadding(st, id) ==
    IF /\ Len(st.heap[id].children) > 0
       /\ ~Truthy(Get(st.heap[id].properties, kPadx))
       /\ ~Truthy(Get(st.heap[id].properties, kPady))
    THEN Rule(SetProperties(st, id, kDefaultPadding, Num(5)),
              "Applied default frame padding", <<>>)
    ELSE st

\* the body of the loop of applyFrameBehaviors, before the recursion
FrameBehaviors(st, id) ==
    IF st.heap[id].type \in {wFrame, wLabelFrame}
    THEN FramePadding(FrameRelief(FrameAutoSize(st, id), id), id)
    ELSE st

\* applyFrameBehaviors: every widget, parents before children
applyFrameBehaviors(st, roots) ==
    ForEach(FrameBehaviors, st, PreOrder(st.heap, roots))

\* one iteration of the second loop of inferLayoutManager
InferChild(st, id) ==
    [st EXCEPT !.heap[id].layoutManager = wpack,
               !.heap[id].hasLayoutOptions = TRUE,
               !.heap[id].layoutOptions =
                   IF Truthy(Get(@, kSide)) THEN @ ELSE Put(@, kSide, Str(sTop))]

\* a variant that gives pack to each child lacking a layout manager, whatever
\* its siblings have
InferMissing(st, id) ==
    IF st.heap[id].layoutManager = <<>> THEN InferChild(st, id) ELSE st

inferLayoutManagerPerChild(st, parent) ==
    Rule(ForEach(InferMissing, st, st.heap[parent].children),
         "Inferred pack layout manager for children", <<>>)

\* inferLayoutManager
inferLayoutManager(st, parent) ==
    IF \E k \in 1..Len(st.heap[parent].children) :
          st.heap[st.heap[parent].children[k]].layoutManager # <<>>
    THEN st
    ELSE Rule(ForEach(InferChild, st, st.heap[parent].children),
              "Inferred pack layout manager for children", <<>>)

\* options.key and options[key] = value, options being the widget's
\* layoutOptions
Option(st, id, key) == Get(st.heap[id].layoutOptions, key)
SetOption(st, id, key, value) ==
    [st EXCEPT !.heap[id].layoutOptions = Put(@, key, value)]

PackDefaultSide(st, id) ==
    IF ~Truthy(Option(st, id, kSide))
    THEN Rule(SetOption(st, id, kSide, Str(sTop)),
              "Applied default pack side (top)", <<>>)
    ELSE st

PackValidSide(st, id) ==
    IF /\ Truthy(Option(st, id, kSide))
       /\ Option(st, id, kSide)
            \notin {Str(sTop), Str(sBottom), Str(sLeft), Str(sRight)}
    THEN SetOption(Warn(st, "Invalid pack side", <<Option(st, id, kSide)>>),
                   id, kSide, Str(sTop))
    ELSE st

PackValidFill(st, id) ==
    IF /\ Truthy(Option(st, id, kFill))
       /\ Option(st, id, kFill)
            \notin {Str(sNone), Str(<<"x">>), Str(<<"y">>), Str(sBoth)}
    THEN SetOption(Warn(st, "Invalid pack fill", <<Option(st, id, kFill)>>),
                   id, kFill, Str(sNone))
    ELSE st

\* applyPackRules
applyPackRules(st, id) ==
    PackValidFill(PackValidSide(PackDefaultSide(st, id), id), id)

\* if (options[key] === undefined) { options[key] = 0; ... }
DefaultZero(st, id, key, text) ==
    IF Option(st, id, key) = Undefined
    THEN Rule(SetOption(st, id, key, Num(0)), text, <<>>)
    ELSE st

\* if (!parent.properties['_gridContainer']) { ... }
GridContainer(st, parent) ==
    IF ~Truthy(Get(st.heap[parent].properties, kGridContainer))
    THEN SetProperties(SetProperties(SetProperties(st, parent, kGridContainer,
                                                   Bool(TRUE)),
                                     parent, kGridRows, Num(1)),
                       parent, kGridColumns, Num(1))
    ELSE st

\* an extent that forgets what the earlier siblings needed
GridExtentOfLast(existing, start, span) ==
    Plus(OrElse(start, Num(0)), OrElse(span, Num(1)))

\* Math.max(existing || 1, (start || 0) + (span || 1))
GridExtent(existing, start, span) ==
    MathMax(OrElse(existing, Num(1)),
            Plus(OrElse(start, Num(0)), OrElse(span, Num(1))))

\* parent.properties['_gridRows'] = maxRow; ['_gridColumns'] = maxCol
GridExtents(st, id, parent) ==
    SetProperties(
        SetProperties(st, parent, kGridRows,
                      GridExtent(Get(st.heap[parent].properties, kGridRows),
                                 Option(st, id, kRow),
                                 Option(st, id, kRowspan))),
        parent, kGridColumns,
        GridExtent(Get(st.heap[parent].properties, kGridColumns),
                   Option(st, id, kColumn),
                   Option(st, id, kColumnspan)))

\* applyGridRules
applyGridRules(st, id, parent) ==
    GridExtents(
        GridContainer(
            DefaultZero(DefaultZero(st, id, kRow, "Applied default grid row (0)"),
                        id, kColumn, "Applied default grid column (0)"),
            parent),
        id, parent)

\* applyPlaceRules
applyPlaceRules(st, id) ==
    SetProperties(
        DefaultZero(DefaultZero(st, id, kX, "Applied default place x (0)"),
                    id, kY, "Applied default place y (0)"),
        id, kPositioned, Bool(TRUE))

\* switch (widget.layoutManager)
LayoutSwitch(st, id, parent) ==
    CASE st.heap[id].layoutManager = wpack -> applyPackRules(st, id)
      [] st.heap[id].layoutManager = wgrid -> applyGridRules(st, id, parent)
      [] st.heap[id].layoutManager = wplace -> applyPlaceRules(st, id)
      [] OTHER -> st

\* const options = widget.layoutOptions || {}: without a layoutOptions object
\* the rules write to a temporary that is dropped
KeepOptions(had, st, id) ==
    IF had THEN st ELSE [st EXCEPT !.heap[id].layoutOptions = EmptyObject]

\* applyLayoutManagerRules
applyLayoutManagerRules(st, id, parent) ==
    KeepOptions(st.heap[id].hasLayoutOptions, LayoutSwitch(st, id, parent), id)

\* the calls the layout pass makes for one widget, in order: child = 0 is
\* the call of inferLayoutManager, any other child the test of that child
LayoutChildren(parent, children) ==
    [k \in 1..Len(children) |-> [parent |-> parent, child |-> children[k]]]

LayoutItemsOf(h, id) ==
    IF Len(h[id].children) = 0 THEN <<>>
    ELSE <<[parent |-> id, child |-> 0]>> \o LayoutChildren(id, h[id].children)

RECURSIVE LayoutItemsOver(_, _)
LayoutItemsOver(h, ids) ==
    IF ids = <<>> THEN <<>>
    ELSE LayoutItemsOf(h, Head(ids)) \o LayoutItemsOver(h, Tail(ids))

\* applyLayoutManagerBehaviors as the sequence of its calls
LayoutItems(h, roots) == LayoutItemsOver(h, PreOrder(h, roots))

\* Label and Button: the width from the text
TextWidth(st, id) ==
    IF /\ ~Truthy(Get(st.heap[id].properties, kWidth))
       /\ Truthy(Get(st.heap[id].properties, kText))
    THEN Rule(SetProperties(st, id, kCalculatedWidth,
                  MathMax(Num(8 * Len(StringOf(Get(st.heap[id].properties,
                                                   kText)))),
                          Num(50))),
              "Calculated width based on text", <<Str(st.heap[id].type)>>)
    ELSE st

\* if (!widget.properties[key]) { widget.properties[calculated] = size; ... }
DefaultSize(st, id, key, calculated, size, text) ==
    IF ~Truthy(Get(st.heap[id].properties, key))
    THEN Rule(SetProperties(st, id, calculated, Num(size)),
              text, <<Str(st.heap[id].type)>>)
    ELSE st

\* calculateWidgetSize
calculateWidgetSize(st, id) ==
    CASE st.heap[id].type \in {wLabel, wButton} ->
            DefaultSize(TextWidth(st, id), id, kHeight, kCalculatedHeight, 25,
                        "Applied default height")
      [] st.heap[id].type = wEntry ->
            DefaultSize(DefaultSize(st, id, kWidth, kCalculatedWidth, 200,
                                    "Applied default width"),
                        id, kHeight, kCalculatedHeight, 25,
                        "Applied default height")
      [] st.heap[id].type = wText ->
            DefaultSize(DefaultSize(st, id, kWidth, kCalculatedWidth, 300,
                                    "Applied default width"),
                        id, kHeight, kCalculatedHeight, 200,
                        "Applied default height")
      [] OTHER -> st

\* applySizingBehaviors
applySizingBehaviors(st, roots) ==
    ForEach(calculateWidgetSize, st, PreOrder(st.heap, roots))

Default(key, value) == [key |-> key, value |-> value]

\* getDefaultProperties: the entries in the order of the object literal
getDefaultProperties(widgetType) ==
    CASE widgetType = wButton ->
            <<Default(kRelief, Str(sRaised)), Default(kBorderwidth, Num(1)),
              Default(kBackground, Str(sGrey))>>
      [] widgetType \in {wEntry, wText, wListbox, wCanvas} ->
            <<Default(kRelief, Str(sSunken)), Default(kBorderwidth, Num(1)),
              Default(kBackground, Str(sWhite))>>
      [] widgetType = wLabel ->
            <<Default(kRelief, Str(sFlat)), Default(kBackground, Str(sGrey))>>
      [] widgetType = wFrame ->
            <<Default(kRelief, Str(sFlat)), Default(kBorderwidth, Num(0)),
              Default(kBackground, Str(sGrey))>>
      [] widgetType = wLabelFrame ->
            <<Default(kRelief, Str(sGroove)), Default(kBorderwidth, Num(2)),
              Default(kBackground, Str(sGrey))>>
      [] OTHER -> <<>>

\* if (!(key in widget.properties)) { widget.properties[key] = value; ... }
SetDefault(st, id, entry) ==
    IF entry.key \notin DOMAIN st.heap[id].properties
    THEN Rule(SetProperties(st, id, entry.key, entry.value),
              "Applied default", <<Str(entry.key), Str(st.heap[id].type)>>)
    ELSE st

RECURSIVE SetDefaults(_, _, _)
SetDefaults(st, id, entries) ==
    IF entries = <<>> THEN st
    ELSE SetDefaults(SetDefault(st, id, Head(entries)), id, Tail(entries))

\* setDefaultProperties
setDefaultProperties(st, id) ==
    SetDefaults(st, id, getDefaultProperties(st.heap[id].type))

\* applyDefaultProperties
applyDefaultProperties(st, roots) ==
    ForEach(setDefaultProperties, st, PreOrder(st.heap, roots))

\* the layout managers of the children that have one, each once, in order
RECURSIVE ManagersOf(_, _, _)
ManagersOf(h, ids, seen) ==
    IF ids = <<>> THEN seen
    ELSE IF h[Head(ids)].layoutManager = <<>>
            \/ \E k \in 1..Len(seen) : seen[k] = Str(h[Head(ids)].layoutManager)
    THEN ManagersOf(h, Tail(ids), seen)
    ELSE ManagersOf(h, Tail(ids), Append(seen, Str(h[Head(ids)].layoutManager)))

\* children.filter(child => !child.layoutManager).length
WithoutLayout(h, ids) ==
    Cardinality({k \in 1..Len(ids) : h[ids[k]].layoutManager = <<>>})

\* a variant that warns only under a parent none of whose children has a
\* layout manager
ValidateLayoutWhenNoneLaid(st, id) ==
    IF /\ st.heap[id].children # <<>>
       /\ WithoutLayout(st.heap, st.heap[id].children)
             = Len(st.heap[id].children)
    THEN Warn(st, "children have no layout manager",
              <<Num(WithoutLayout(st.heap, st.heap[id].children)),
                Str(st.heap[id].type)>>)
    ELSE st

ValidateLayout(st, id) ==
    IF WithoutLayout(st.heap, st.heap[id].children) > 0
    THEN Warn(st, "children have no layout manager",
              <<Num(WithoutLayout(st.heap, st.heap[id].children)),
                Str(st.heap[id].type)>>)
    ELSE st

ValidateMixed(st, id) ==
    IF Len(ManagersOf(st.heap, st.heap[id].children, <<>>)) > 1
    THEN Warn(st, "has children with mixed layout managers",
              <<Str(st.heap[id].type)>>
                  \o ManagersOf(st.heap, st.heap[id].children, <<>>))
    ELSE st

\* the body of the loop of validateWidgetHierarchy, before the recursion
ValidateWidget(st, id) == ValidateMixed(ValidateLayout(st, id), id)

\* validateWidgetHierarchy
validateWidgetHierarchy(st, roots) ==
    ForEach(ValidateWidget, st, PreOrder(st.heap, roots))

---------------------------------------------------------------------------
(* TkinterBehaviorEngine.applyBehaviors as a state machine: one step per   *)
(* pass, the layout pass one step per call it makes                        *)

EngineState == [heap |-> heap, appliedRules |-> appliedRules, warnings |-> warnings]

Store(st) ==
    /\ heap' = st.heap
    /\ appliedRules' = st.appliedRules
    /\ warnings' = st.warnings

CopyOf(copy) ==
    /\ heap' = copy.heap
    /\ modifiedWidgets' = copy.ids

\* this.warnings = []; this.appliedRules = []; deepCopyWidgets(widgets)
ApplyBehaviors ==
    /\ bpc = "call"
    /\ before' = heap
    /\ CopyOf(deepCopyWidgets(heap, forest))
    /\ warnings' = <<>>
    /\ appliedRules' = <<>>
    /\ round' = round + 1
    /\ bpc' = "root"
    /\ UNCHANGED <<forest, cursor>>
    /\ UNCHANGED outsideEngine

ApplyRootWindowBehaviors ==
    /\ bpc = "root"
    /\ Store(applyRootWindowBehaviors(EngineState, modifiedWidgets))
    /\ bpc' = "frame"
    /\ UNCHANGED <<forest, before, modifiedWidgets, cursor, round>>
    /\ UNCHANGED outsideEngine

ApplyFrameBehaviors ==
    /\ bpc = "frame"
    /\ Store(applyFrameBehaviors(EngineState, modifiedWidgets))
    /\ bpc' = "layout"
    /\ cursor' = 1
    /\ UNCHANGED <<forest, before, modifiedWidgets, round>>
    /\ UNCHANGED outsideEngine

InLayoutPass ==
    /\ bpc = "layout"
    /\ cursor <= Len(LayoutItems(heap, modifiedWidgets))

CurrentItem == LayoutItems(heap, modifiedWidgets)[cursor]

\* applyLayoutManagerBehaviors: if (widget.children.length > 0) inferLayoutManager(widget)
InferLayoutManager ==
    /\ InLayoutPass
    /\ CurrentItem.child = 0
    /\ Store(inferLayoutManager(EngineState, CurrentItem.parent))
    /\ cursor' = cursor + 1
    /\ UNCHANGED <<forest, before, modifiedWidgets, bpc, round>>
    /\ UNCHANGED outsideEngine

\* applyLayoutManagerBehaviors: if (child.layoutManager) applyLayoutManagerRules(child, widget)
ApplyLayoutManagerRules ==
    /\ InLayoutPass
    /\ CurrentItem.child # 0
    /\ IF heap[CurrentItem.child].layoutManager # <<>>
       THEN Store(applyLayoutManagerRules(EngineState, CurrentItem.child,
                                          CurrentItem.parent))
       ELSE UNCHANGED <<heap, appliedRules, warnings>>
    /\ cursor' = cursor + 1
    /\ UNCHANGED <<forest, before, modifiedWidgets, bpc, round>>
    /\ UNCHANGED outsideEngine

ApplySizingBehaviors ==
    /\ bpc = "layout"
    /\ cursor > Len(LayoutItems(heap, modifiedWidgets))
    /\ Store(applySizingBehaviors(EngineState, modifiedWidgets))
    /\ bpc' = "defaults"
    /\ UNCHANGED <<forest, before, modifiedWidgets, cursor, round>>
    /\ UNCHANGED outsideEngine

ApplyDefaultProperties ==
    /\ bpc = "defaults"
    /\ Store(applyDefaultProperties(EngineState, modifiedWidgets))
    /\ bpc' = "validate"
    /\ UNCHANGED <<forest, before, modifiedWidgets, cursor, round>>
    /\ UNCHANGED outsideEngine

\* validateWidgetHierarchy, then the result is returned
ValidateWidgetHierarchy ==
    /\ bpc = "validate"
    /\ Store(validateWidgetHierarchy(EngineState, modifiedWidgets))
    /\ bpc' = "done"
    /\ UNCHANGED <<forest, before, modifiedWidgets, cursor, round>>
    /\ UNCHANGED outsideEngine

\* the caller hands the forest it got back to applyBehaviors once more
ApplyAgain ==
    /\ bpc = "done"
    /\ round = 1
    /\ forest' = modifiedWidgets
    /\ bpc' = "call"
    /\ UNCHANGED <<heap, before, modifiedWidgets, appliedRules, warnings,
                   cursor, round>>
    /\ UNCHANGED outsideEngine

---------------------------------------------------------------------------
(* Forests handed to applyBehaviors: at most MaxNodes widgets, the first a *)
(* window, each with values the parser produces                            *)

MaxNodes == 3

Widget(type, properties) ==
    [NewWidget(type, <<>>, 0) EXCEPT !.properties = properties]

Laid(widget, method, options) ==
    [widget EXCEPT !.layoutManager = method,
                   !.hasLayoutOptions = TRUE,
                   !.layoutOptions = options]

\* Tk()
tkPlain == Widget(wTk, EmptyObject)
\* Tk(width=0)
tkZeroWidth == Widget(wTk, kWidth :> Num(0))
\* Tk(width=300, height=200, title="App")
tkSized ==
    Widget(wTk, kWidth :> Num(300) @@ kHeight :> Num(200)
                @@ kTitle :> Str(<<"A", "p", "p">>))

\* Label(text="Hi")
labelHi == Widget(wLabel, kText :> Str(<<"H", "i">>))
\* Label(text=5)
labelFive == Widget(wLabel, kText :> Num(5))
\* Button(text="OK").grid(row=1, column=2)
buttonGrid ==
    Laid(Widget(wButton, kText :> Str(<<"O", "K">>)), wgrid,
         kRow :> Num(1) @@ kColumn :> Num(2))
\* Entry(width=20).grid(rowspan=2)
entryGrid == Laid(Widget(wEntry, kWidth :> Num(20)), wgrid, kRowspan :> Num(2))
\* Text().grid(column=1, rowspan=0)
textSpanZero ==
    Laid(Widget(wText, EmptyObject), wgrid,
         kColumn :> Num(1) @@ kRowspan :> Num(0))
\* Frame().pack(side="left", fill="x")
framePack ==
    Laid(Widget(wFrame, EmptyObject), wpack,
         kSide :> Str(sLeft) @@ kFill :> Str(<<"x">>))
\* LabelFrame(bd=3).pack(side="center", fill="all")
labelFrameCenter ==
    Laid(Widget(wLabelFrame, kBd :> Num(3)), wpack,
         kSide :> Str(<<"c", "e", "n", "t", "e", "r">>)
         @@ kFill :> Str(<<"a", "l", "l">>))
\* Canvas(height=40).place(x=10)
canvasPlace == Laid(Widget(wCanvas, kHeight :> Num(40)), wplace, kX :> Num(10))

\* Listbox().pack(side="", fill="")
listboxPack ==
    Laid(Widget(wListbox, EmptyObject), wpack,
         kSide :> Str(<<>>) @@ kFill :> Str(<<>>))

Windows == {tkPlain, tkZeroWidth, tkSized}

Children ==
    {labelHi, labelFive, buttonGrid, entryGrid, textSpanZero, framePack,
     labelFrameCenter, canvasPlace, listboxPack}

\* the widgets whose parent is k, in creation order
ChildrenOf(k, parent, n) ==
    SelectSeq([j \in 1..n |-> j], LAMBDA j : j > k /\ parent[j] = k)

\* parent[k] = 0 makes widget k a top-level widget.  Widget 1 is a window at
\* top level, widget 2 hangs below it or is a second top-level widget, a
\* later widget hangs below widget 1 or below the widget created before it
ParentsOf(k) == IF k = 1 THEN {0} ELSE IF k = 2 THEN {0, 1} ELSE {1, k - 1}

Shapes(n) ==
    {parent \in [1..n -> 0..n] : \A k \in 1..n : parent[k] \in ParentsOf(k)}

\* the top-level widgets, in creation order
Roots(parent, n) == SelectSeq([j \in 1..n |-> j], LAMBDA j : parent[j] = 0)

\* a window as widget 1 and one of Children as each later widget
Choice(window, below, k) == IF k = 1 THEN window ELSE below[k]

InputHeap(n, window, below, parent) ==
    [k \in 1..n |->
        [Choice(window, below, k) EXCEPT !.children = ChildrenOf(k, parent, n)]]

\* the parser at rest
ParserIdle ==
    /\ pythonCode = <<>>
    /\ lines = <<>>
    /\ i = 0
    /\ pc = "done"
    /\ widgets = <<>>
    /\ variableMap = EmptyObject
    /\ result = EmptyResult

BehaviorInit ==
    /\ \E n \in 0..MaxNodes, window \in Windows :
          \E below \in [2..n -> Children], parent \in Shapes(n) :
             /\ heap = InputHeap(n, window, below, parent)
             /\ forest = Roots(parent, n)
    /\ before = heap
    /\ modifiedWidgets = <<>>
    /\ appliedRules = <<>>
    /\ warnings = <<>>
    /\ bpc = "call"
    /\ cursor = 0
    /\ round = 0
    /\ ParserIdle
    /\ ConverterIdle
    /\ PanelIdle

BehaviorNext ==
    \/ ApplyBehaviors
    \/ ApplyRootWindowBehaviors
    \/ ApplyFrameBehaviors
    \/ InferLayoutManager
    \/ ApplyLayoutManagerRules
    \/ ApplySizingBehaviors
    \/ ApplyDefaultProperties
    \/ ValidateWidgetHierarchy
    \/ ApplyAgain

BehaviorSpec == BehaviorInit /\ [][BehaviorNext]_vars

(* the forests whose window sizes are estimated: windows without a size,   *)
(* holding children with and without a layout manager, and nested windows  *)

\* Toplevel()
toplevelPlain == Widget(wToplevel, EmptyObject)
\* Label(text="Settings")
labelWide ==
    Widget(wLabel, kText :> Str(<<"S", "e", "t", "t", "i", "n", "g", "s">>))
\* Text()
textPlain == Widget(wText, EmptyObject)
\* Text().pack(side="top")
textTop == Laid(Widget(wText, EmptyObject), wpack, kSide :> Str(sTop))
\* LabelFrame(borderwidth=3)
labelFrameBordered == Widget(wLabelFrame, kBorderwidth :> Num(3))

SizedWindows == {tkPlain, toplevelPlain}

SizedChildren ==
    {toplevelPlain, labelWide, textPlain, textTop, framePack,
     labelFrameBordered}

SizingInit ==
    /\ \E n \in 0..MaxNodes, window \in SizedWindows :
          \E below \in [2..n -> SizedChildren], parent \in Shapes(n) :
             /\ heap = InputHeap(n, window, below, parent)
             /\ forest = Roots(parent, n)
    /\ before = heap
    /\ modifiedWidgets = <<>>
    /\ appliedRules = <<>>
    /\ warnings = <<>>
    /\ bpc = "call"
    /\ cursor = 0
    /\ round = 0
    /\ ParserIdle
    /\ ConverterIdle
    /\ PanelIdle

SizingSpec == SizingInit /\ [][BehaviorNext]_vars

---------------------------------------------------------------------------
(* TkinterHtmlConverter (src/src/converter/simpleHtmlConverter.ts)         *)
(*                                                                         *)
(* A string under construction is a sequence of pieces: a piece taken from *)
(* a template literal of the source is one string, a character that comes  *)
(* from the widget data is a string of length one.  Joining the pieces     *)
(* gives the text the code builds.                                         *)

kSticky == <<"s", "t", "i", "c", "k", "y">>
kIpadx == <<"i", "p", "a", "d", "x">>
kIpady == <<"i", "p", "a", "d", "y">>
kBg == <<"b", "g">>
kFg == <<"f", "g">>
kForeground == <<"f", "o", "r", "e", "g", "r", "o", "u", "n", "d">>

\* applyLayoutManagerBehaviors: one call of its loops
LayoutItem(st, item) ==
    IF item.child = 0 THEN inferLayoutManager(st, item.parent)
    ELSE IF st.heap[item.child].layoutManager # <<>>
    THEN applyLayoutManagerRules(st, item.child, item.parent)
    ELSE st

applyLayoutManagerBehaviors(st, roots) ==
    ForEach(LayoutItem, st, LayoutItems(st.heap, roots))

\* the passes of applyBehaviors over the copied forest
BehaviorPasses(st, roots) ==
    validateWidgetHierarchy(
        applyDefaultProperties(
            applySizingBehaviors(
                applyLayoutManagerBehaviors(
                    applyFrameBehaviors(
                        applyRootWindowBehaviors(st, roots), roots), roots),
                roots), roots), roots)

BehaviorResult(copy) ==
    [modifiedWidgets |-> copy.ids,
     state |-> BehaviorPasses([heap |-> copy.heap, appliedRules |-> <<>>,
                               warnings |-> <<>>], copy.ids)]

\* applyBehaviors(widgets) as one call: the returned forest lives in
\* state.heap under the references modifiedWidgets
applyBehaviors(h, roots) == BehaviorResult(deepCopyWidgets(h, roots))

UpperCase ==
    <<"A", "B", "C", "D", "E", "F", "G", "H", "I", "J", "K", "L", "M",
      "N", "O", "P", "Q", "R", "S", "T", "U", "V", "W", "X", "Y", "Z">>
LowerCase ==
    <<"a", "b", "c", "d", "e", "f", "g", "h", "i", "j", "k", "l", "m",
      "n", "o", "p", "q", "r", "s", "t", "u", "v", "w", "x", "y", "z">>

LowerOf(c) ==
    IF \E k \in 1..26 : UpperCase[k] = c
    THEN LowerCase[CHOOSE k \in 1..26 : UpperCase[k] = c]
    ELSE c

\* String.prototype.toLowerCase
toLowerCase(s) == [k \in 1..Len(s) |-> LowerOf(s[k])]

\* text.replace(/c/g, by)
RECURSIVE ReplaceAll(_, _, _)
ReplaceAll(s, c, by) ==
    IF s = <<>> THEN <<>>
    ELSE (IF Head(s) = c THEN by ELSE <<Head(s)>>)
             \o ReplaceAll(Tail(s), c, by)

entityAmp == <<"&", "a", "m", "p", ";">>
entityLt == <<"&", "l", "t", ";">>
entityGt == <<"&", "g", "t", ";">>
entityQuot == <<"&", "q", "u", "o", "t", ";">>
entityApos == <<"&", "#", "3", "9", ";">>

\* a variant that replaces the ampersand last
escapeHtmlAmpersandLast(s) ==
    ReplaceAll(
        ReplaceAll(
            ReplaceAll(
                ReplaceAll(ReplaceAll(s, "<", entityLt), ">", entityGt),
                "\"", entityQuot),
            "'", entityApos),
        "&", entityAmp)

\* escapeHtml on a string
escapeHtml(s) ==
    ReplaceAll(
        ReplaceAll(
            ReplaceAll(
                ReplaceAll(ReplaceAll(s, "&", entityAmp), "<", entityLt),
                ">", entityGt),
            "\"", entityQuot),
        "'", entityApos)

\* a variant in which the vertical axis follows the horizontal one
AlignAsJustify(sticky, first, second) ==
    IF Includes(sticky, <<"w">>) /\ Includes(sticky, <<"e">>) THEN "stretch"
    ELSE IF Includes(sticky, <<"e">>) THEN "end"
    ELSE "start"

\* convertStickyToCSS: the alignment of one axis, first and second being the
\* letters of its start edge and of its end edge
Alignment(sticky, first, second) ==
    IF Includes(sticky, <<first>>) /\ Includes(sticky, <<second>>)
    THEN "stretch"
    ELSE IF Includes(sticky, <<second>>) THEN "end"
    ELSE "start"

\* convertStickyToCSS: the list of the two alignment styles
convertStickyToCSS(sticky) ==
    <<<<"justify-self: ", Alignment(sticky, "w", "e")>>,
      <<"align-self: ", Alignment(sticky, "n", "s")>>>>

\* parseInt(String(v))
ParseIntOf(v) == ParseIntPrefix(StringOf(v))

\* parseInt(String(v)) || 0
ParseIntOrZero(v) == OrElse(ParseIntOf(v), Num(0))

\* getWidgetStyles: grid-area from row, column, rowspan and columnspan
GridStart(options, key) == AddNumbers(ParseIntOf(OrElse(Get(options, key), Num(0))), Num(1))
GridEnd(options, key, span) ==
    AddNumbers(GridStart(options, key),
               ParseIntOf(OrElse(Get(options, span), Num(1))))

GridArea(options) ==
    <<<<"grid-area: ">> \o StringOf(GridStart(options, kRow))
        \o <<" / ">> \o StringOf(GridStart(options, kColumn))
        \o <<" / ">> \o StringOf(GridEnd(options, kRow, kRowspan))
        \o <<" / ">> \o StringOf(GridEnd(options, kColumn, kColumnspan))>>

\* getWidgetStyles: if (options.sticky) ...
StickyStyles(options) ==
    IF Truthy(Get(options, kSticky))
    THEN convertStickyToCSS(toLowerCase(StringOf(Get(options, kSticky))))
    ELSE <<>>

\* getWidgetStyles: if (options[key] !== undefined) two styles of its pixels
PixelPair(options, key, first, second) ==
    IF Get(options, key) # Undefined
    THEN <<<<first>> \o StringOf(ParseIntOrZero(Get(options, key)))
               \o <<"px">>,
           <<second>> \o StringOf(ParseIntOrZero(Get(options, key)))
               \o <<"px">>>>
    ELSE <<>>

PaddingStyles(options) ==
    PixelPair(options, kPadx, "margin-left: ", "margin-right: ")
        \o PixelPair(options, kPady, "margin-top: ", "margin-bottom: ")
        \o PixelPair(options, kIpadx, "padding-left: ", "padding-right: ")
        \o PixelPair(options, kIpady, "padding-top: ", "padding-bottom: ")

LayoutStyles(widget) ==
    IF widget.layoutManager = wgrid /\ widget.hasLayoutOptions
    THEN GridArea(widget.layoutOptions)
             \o StickyStyles(widget.layoutOptions)
             \o PaddingStyles(widget.layoutOptions)
    ELSE IF widget.layoutManager = wpack /\ widget.hasLayoutOptions
    THEN PaddingStyles(widget.layoutOptions)
    ELSE <<>>

\* getWidgetStyles: a colour from properties[short] || properties[long]
ColourStyle(properties, short, long, name) ==
    IF Truthy(OrElse(Get(properties, short), Get(properties, long)))
    THEN <<<<name>> \o StringOf(OrElse(Get(properties, short),
                                       Get(properties, long)))>>
    ELSE <<>>

\* getWidgetStyles: width and height in pixels, by units of factor pixels
SizeStyle(properties, key, name, factor) ==
    IF /\ Truthy(Get(properties, key))
       /\ ParseIntOrZero(Get(properties, key)).n > 0
    THEN <<<<name>>
             \o StringOf(Times(ParseIntOrZero(Get(properties, key)), factor))
             \o <<"px">>>>
    ELSE <<>>

PropertyStyles(properties) ==
    ColourStyle(properties, kBg, kBackground, "background-color: ")
        \o ColourStyle(properties, kFg, kForeground, "color: ")
        \o SizeStyle(properties, kWidth, "width: ", 8)
        \o SizeStyle(properties, kHeight, "height: ", 16)

\* styles.join('; ')
RECURSIVE JoinStyles(_)
JoinStyles(styles) ==
    IF styles = <<>> THEN <<>>
    ELSE IF Len(styles) = 1 THEN Head(styles)
    ELSE Head(styles) \o <<"; ">> \o JoinStyles(Tail(styles))

\* getWidgetStyles
getWidgetStyles(widget) ==
    JoinStyles(LayoutStyles(widget) \o PropertyStyles(widget.properties))

\* a generation in progress: the markup so far, this.idCounter and the
\* message of the exception that ended it, "" while none has been thrown
Generation(counter) == [html |-> <<>>, idCounter |-> counter, thrown |-> ""]

\* html += pieces
Emit(g, pieces) ==
    IF g.thrown # "" THEN g ELSE [g EXCEPT !.html = @ \o pieces]

\* html += escapeHtml(text): text.replace exists on strings only
EmitEscaped(g, text) ==
    IF g.thrown # "" THEN g
    ELSE IF text.t = "str" THEN Emit(g, escapeHtml(text.s))
    ELSE [g EXCEPT !.thrown = "text.replace is not a function"]

\* `tkinter-widget-${this.idCounter}`
WidgetId(counter) == <<"tkinter-widget-">> \o IntToDigits(counter)

\* generateLabel
generateLabel(g, widget) ==
    Emit(EmitEscaped(
             Emit(g, <<"<div id=\"">> \o WidgetId(g.idCounter)
                         \o <<"\" class=\"tk-label\" style=\"">>
                         \o getWidgetStyles(widget) \o <<"\">">>),
             OrElse(Get(widget.properties, kText), Str(<<>>))),
         <<"</div>">>)

\* generateButton
generateButton(g, widget) ==
    Emit(EmitEscaped(
             Emit(g, <<"<button id=\"">> \o WidgetId(g.idCounter)
                         \o <<"\" class=\"tk-button\" style=\"">>
                         \o getWidgetStyles(widget) \o <<"\">">>),
             OrElse(Get(widget.properties, kText), Str(wButton))),
         <<"</button>">>)

\* a - b
Minus(a, b) == AddNumbers(ToNumber(a), Times(b, -1))

\* generateWindow: the comparator of the sort, by its sign (a comparator
\* result of NaN counts as 0)
GridKey(widget, key) == OrElse(Get(widget.layoutOptions, key), Num(0))
\* a variant comparing the rows only
CompareGridByRow(a, b) == Minus(GridKey(a, kRow), GridKey(b, kRow)).n

CompareGrid(a, b) ==
    IF GridKey(a, kRow) # GridKey(b, kRow)
    THEN Minus(GridKey(a, kRow), GridKey(b, kRow)).n
    ELSE Minus(GridKey(a, kColumn), GridKey(b, kColumn)).n

\* Array.prototype.sort is stable: an element goes before the first element
\* that compares greater than it
RECURSIVE InsertSorted(_, _, _)
InsertSorted(h, sorted, id) ==
    IF sorted = <<>> THEN <<id>>
    ELSE IF CompareGrid(h[Head(sorted)], h[id]) > 0 THEN <<id>> \o sorted
    ELSE <<Head(sorted)>> \o InsertSorted(h, Tail(sorted), id)

RECURSIVE SortInto(_, _, _)
SortInto(h, sorted, ids) ==
    IF ids = <<>> THEN sorted
    ELSE SortInto(h, InsertSorted(h, sorted, Head(ids)), Tail(ids))

\* generateWindow: widget.children.some(child => child.layoutManager === 'grid')
hasGridChildren(h, id) ==
    \E k \in 1..Len(h[id].children) :
        h[h[id].children[k]].layoutManager = wgrid

\* generateWindow: the children in the order they are generated
gridChildren(h, id) ==
    IF hasGridChildren(h, id) THEN SortInto(h, <<>>, h[id].children)
    ELSE h[id].children

\* generateWindow: the markup up to the title (the glyphs of the three title
\* bar buttons, U+2212, U+25A1 and U+00D7, are written -, o and x)
WindowOpen(g) ==
    Emit(g, <<"<div id=\"">> \o WidgetId(g.idCounter)
                \o <<"\" class=\"tk-window\">", "<div class=\"tk-titlebar\">",
                     "<div class=\"tk-titlebar-title\">">>)

WindowContent(h, id) ==
    <<"</div>", "<div class=\"tk-titlebar-buttons\">",
      "<div class=\"tk-titlebar-button\">-</div>",
      "<div class=\"tk-titlebar-button\">o</div>",
      "<div class=\"tk-titlebar-button\">x</div>",
      "</div>", "</div>",
      IF hasGridChildren(h, id) THEN "<div class=\"tk-content-grid\">"
      ELSE "<div class=\"tk-content\">">>

RECURSIVE generateSimpleWidget(_, _, _)
RECURSIVE generateEach(_, _, _)

\* generateWindow
generateWindow(g, h, id) ==
    Emit(generateEach(
             Emit(EmitEscaped(WindowOpen(g),
                              OrElse(Get(h[id].properties, kTitle),
                                     Str(wTk))),
                  WindowContent(h, id)),
             h, gridChildren(h, id)),
         <<"</div></div>">>)

\* a variant that renders the children of a widget of any other kind
GenerateThroughOthers(g, h, id) ==
    IF toLowerCase(h[id].type) \in {toLowerCase(wTk), toLowerCase(wToplevel)}
    THEN generateWindow(g, h, id)
    ELSE IF toLowerCase(h[id].type) = toLowerCase(wLabel)
    THEN generateLabel(g, h[id])
    ELSE IF toLowerCase(h[id].type) = toLowerCase(wButton)
    THEN generateButton(g, h[id])
    ELSE generateEach(g, h, h[id].children)

\* generateSimpleWidget: the switch on widget.type.toLowerCase()
GenerateByType(g, h, id) ==
    IF toLowerCase(h[id].type) \in {toLowerCase(wTk), toLowerCase(wToplevel)}
    THEN generateWindow(g, h, id)
    ELSE IF toLowerCase(h[id].type) = toLowerCase(wLabel)
    THEN generateLabel(g, h[id])
    ELSE IF toLowerCase(h[id].type) = toLowerCase(wButton)
    THEN generateButton(g, h[id])
    ELSE g

\* generateSimpleWidget: ++this.idCounter, then the switch
generateSimpleWidget(g, h, id) ==
    IF g.thrown # "" THEN g
    ELSE GenerateByType([g EXCEPT !.idCounter = @ + 1], h, id)

\* for (const widget of ids) html += this.generateSimpleWidget(widget)
generateEach(g, h, ids) ==
    IF ids = <<>> THEN g
    ELSE generateEach(generateSimpleWidget(g, h, Head(ids)), h, Tail(ids))

\* generateSimpleHtml
generateSimpleHtml(h, roots, counter) ==
    IF roots = <<>>
    THEN Emit(Generation(counter),
              <<"<div class=\"tkinter-empty\">No Tkinter widgets found</div>">>)
    ELSE generateEach(Generation(counter), h, roots)

\* generateSimpleCSS: the fixed stylesheet text
generateSimpleCSS == "/* Reset - Entferne alle Browser-Defaults */ ..."

\* an entry of this.errors: `${kind}: ${text}`, text being a warning of the
\* behaviour engine or the message of the exception
ErrorEntry(kind, text, args) == [kind |-> kind, text |-> text, args |-> args]

BehaviorWarnings(ws) ==
    [k \in 1..Len(ws) |-> ErrorEntry("Behavior warning", ws[k].text, ws[k].args)]

(* convert, step by step *)

\* a variant that keeps the counter and the errors of the call before
ConvertWithoutReset ==
    /\ cpc = "call"
    /\ cpc' = "behave"
    /\ UNCHANGED <<idCounter, errors, html, thrown, conversion>>
    /\ UNCHANGED <<parseVars, engineVars, sessionVars, panelVars>>

\* this.idCounter = 0; this.errors = []
Convert ==
    /\ cpc = "call"
    /\ idCounter' = 0
    /\ errors' = <<>>
    /\ cpc' = "behave"
    /\ UNCHANGED <<html, thrown, conversion>>
    /\ UNCHANGED <<parseVars, engineVars, sessionVars, panelVars>>

Behaved(r) ==
    /\ heap' = r.state.heap
    /\ modifiedWidgets' = r.modifiedWidgets
    /\ appliedRules' = r.state.appliedRules
    /\ warnings' = r.state.warnings
    /\ errors' = errors \o BehaviorWarnings(r.state.warnings)

\* behaviorEngine.applyBehaviors(widgets), warnings pushed onto this.errors
ConvertApplyBehaviors ==
    /\ cpc = "behave"
    /\ Behaved(applyBehaviors(heap, forest))
    /\ cpc' = "generate"
    /\ UNCHANGED <<idCounter, html, thrown, conversion>>
    /\ UNCHANGED <<forest, before, bpc, cursor, round>>
    /\ UNCHANGED <<parseVars, sessionVars, panelVars>>

Generated(g) ==
    /\ html' = g.html
    /\ idCounter' = g.idCounter
    /\ thrown' = g.thrown
    /\ cpc' = IF g.thrown = "" THEN "return" ELSE "catch"

\* generateSimpleHtml(behaviorResult.modifiedWidgets)
GenerateSimpleHtml ==
    /\ cpc = "generate"
    /\ Generated(generateSimpleHtml(heap, modifiedWidgets, idCounter))
    /\ UNCHANGED <<errors, conversion>>
    /\ UNCHANGED <<parseVars, engineVars, sessionVars, panelVars>>

\* the return of the try block
ConvertReturn ==
    /\ cpc = "return"
    /\ conversion' = [html |-> html, css |-> generateSimpleCSS,
                      hasErrors |-> Len(errors) > 0, errors |-> errors]
    /\ cpc' = "done"
    /\ UNCHANGED <<idCounter, errors, html, thrown>>
    /\ UNCHANGED <<parseVars, engineVars, sessionVars, panelVars>>

\* a variant that records nothing for the exception
CaughtErrorsUnchanged(errs, message) == errs

\* this.errors.push(`Conversion error: ${errorMessage}`)
CaughtErrors(errs, message) ==
    Append(errs, ErrorEntry("Conversion error", message, <<>>))

\* the catch block
ConvertCatch ==
    /\ cpc = "catch"
    /\ errors' = CaughtErrors(errors, thrown)
    /\ conversion' =
          [html |-> <<"<div class=\"tkinter-error\">Conversion failed: ",
                      thrown, "</div>">>,
           css |-> generateSimpleCSS, hasErrors |-> TRUE, errors |-> errors']
    /\ cpc' = "done"
    /\ UNCHANGED <<idCounter, html, thrown>>
    /\ UNCHANGED <<parseVars, engineVars, sessionVars, panelVars>>

(* the forests handed to convert *)

MaxText == 3
MaxSticky == 4

\* the strings of at most n characters of an alphabet
Strings(alphabet, n) == UNION {[1..k -> alphabet] : k \in 0..n}

\* text and title values: the five characters escapeHtml replaces and a letter
Texts == Strings({"&", "<", ">", "\"", "'", "a"}, MaxText)

\* sticky values: the four edges in any order, and the spellings tk.NSEW and
\* tk.E as parseValue keeps them
Stickies ==
    Strings({"n", "s", "e", "w"}, MaxSticky)
        \cup {<<"t", "k", ".", "N", "S", "E", "W">>, <<"t", "k", ".", "E">>}

\* Tk(title=5)
tkNumbered == Widget(wTk, kTitle :> Num(5))
\* Toplevel(title="W")
toplevelTitled == Widget(wToplevel, kTitle :> Str(<<"W">>))
\* Label(text="A").grid(row=1)
labelRowOne ==
    Laid(Widget(wLabel, kText :> Str(<<"A">>)), wgrid, kRow :> Num(1))
\* Label(text="B").grid()
labelOrigin == Laid(Widget(wLabel, kText :> Str(<<"B">>)), wgrid, EmptyObject)
\* Button().grid(row=0, column=0, padx=4)
buttonOrigin ==
    Laid(Widget(wButton, EmptyObject), wgrid,
         kRow :> Num(0) @@ kColumn :> Num(0) @@ kPadx :> Num(4))
\* Label(text="P", bg="red", width=10).pack(pady=5)
labelPadded ==
    Laid(Widget(wLabel, kText :> Str(<<"P">>) @@ kBg :> Str(<<"r", "e", "d">>)
                            @@ kWidth :> Num(10)),
         wpack, kPady :> Num(5))

RenderedWindows == {tkPlain, tkNumbered, toplevelTitled}

RenderedChildren ==
    {labelHi, labelFive, buttonGrid, labelRowOne, labelOrigin, buttonOrigin,
     labelPadded, framePack, entryGrid, toplevelTitled}

\* a window holding one widget
WindowWith(window, child) == <<[window EXCEPT !.children = <<2>>], child>>

\* Tk() holding Label(text="S").grid(sticky=...)
StickyInput(sticky) ==
    WindowWith(tkPlain,
               Laid(Widget(wLabel, kText :> Str(<<"S">>)), wgrid,
                    kSticky :> Str(sticky)))

\* Tk(title=text) holding a Label or Button of the same text
TextInput(type, text) ==
    WindowWith(Widget(wTk, kTitle :> Str(text)),
               Widget(type, kText :> Str(text)))

\* colour values: a letter and the characters that end an attribute or a tag
Colours == Strings({"r", "\"", "<", ">"}, 2)

\* Tk() holding a Label or Button with one colour property
ColourInput(type, key, colour) ==
    WindowWith(tkPlain,
               Widget(type, kText :> Str(<<"C">>) @@ key :> Str(colour)))

ConvertInit ==
    /\ \/ \E n \in 0..MaxNodes, window \in RenderedWindows :
             \E below \in [2..n -> RenderedChildren], parent \in Shapes(n) :
                /\ heap = InputHeap(n, window, below, parent)
                /\ forest = Roots(parent, n)
       \/ \E sticky \in Stickies :
             /\ heap = StickyInput(sticky)
             /\ forest = <<1>>
       \/ \E text \in Texts, type \in {wLabel, wButton} :
             /\ heap = TextInput(type, text)
             /\ forest = <<1>>
       \/ \E colour \in Colours, type \in {wLabel, wButton},
                key \in {kBg, kBackground, kFg, kForeground} :
             /\ heap = ColourInput(type, key, colour)
             /\ forest = <<1>>
    /\ before = <<>>
    /\ modifiedWidgets = <<>>
    /\ appliedRules = <<>>
    /\ warnings = <<>>
    /\ bpc = "idle"
    /\ cursor = 0
    /\ round = 0
    /\ idCounter = 0
    /\ errors = <<>>
    /\ html = <<>>
    /\ thrown = ""
    /\ conversion = NoConversion
    /\ cpc = "call"
    /\ callCount = 0
    /\ returned = <<>>
    /\ ParserIdle
    /\ PanelIdle

ConvertNext ==
    \/ Convert
    \/ ConvertApplyBehaviors
    \/ GenerateSimpleHtml
    \/ ConvertReturn
    \/ ConvertCatch

ConvertSpec == ConvertInit /\ [][ConvertNext]_vars

---------------------------------------------------------------------------
(* One TkinterParser and one TkinterHtmlConverter used for several files in *)
(* turn, as TkinterPreviewPanel.updateContent uses its parser and converter *)

MaxCalls == 3

\* l = tk.Label(r, text="Hi")
lineLabel ==
    <<"l", " ", "=", " ", "t", "k", ".", "L", "a", "b", "e", "l", "(", "r",
      ",", " ", "t", "e", "x", "t", "=", "\"", "H", "i", "\"", ")">>
\* l.pack(side="center")
linePackCenter ==
    <<"l", ".", "p", "a", "c", "k", "(", "s", "i", "d", "e", "=", "\"",
      "c", "e", "n", "t", "e", "r", "\"", ")">>
\* n = tk.Label(r, text=5)
lineLabelFive ==
    <<"n", " ", "=", " ", "t", "k", ".", "L", "a", "b", "e", "l", "(", "r",
      ",", " ", "t", "e", "x", "t", "=", "5", ")">>

\* the source texts of a session
Sessions ==
    {JoinLines(p) :
        p \in {<<>>, <<lineTk>>, <<lineTk, lineLabel>>,
               <<lineTk, lineLabel, linePackCenter>>,
               <<lineTk, lineLabelFive>>,
               <<lineTk, lineFrame, lineButton, lineConfig>>}}

\* what a call was given and what its three stages returned
Outcome ==
    [pythonCode |-> pythonCode, result |-> result, widgets |-> widgets,
     heap |-> heap, modifiedWidgets |-> modifiedWidgets,
     appliedRules |-> appliedRules, warnings |-> warnings,
     conversion |-> conversion]

\* parse(pythonCode) is entered: its result, widgets and variableMap are new
ParseCalled(text) ==
    /\ pythonCode' = text
    /\ lines' = <<>>
    /\ i' = 0
    /\ pc' = "start"
    /\ widgets' = <<>>
    /\ variableMap' = EmptyObject
    /\ result' = EmptyResult

\* this.converter.convert(parseResult.widgets)
ConvertParsed ==
    /\ pc = "done"
    /\ cpc = "idle"
    /\ heap' = widgets
    /\ forest' = result.widgets
    /\ cpc' = "call"
    /\ UNCHANGED <<before, modifiedWidgets, appliedRules, warnings, bpc,
                   cursor, round>>
    /\ UNCHANGED <<idCounter, errors, html, thrown, conversion>>
    /\ UNCHANGED <<parseVars, sessionVars, panelVars>>

\* the next file is parsed by the same parser
ParseAgain ==
    /\ cpc = "done"
    /\ callCount < MaxCalls
    /\ \E text \in Sessions : ParseCalled(text)
    /\ callCount' = callCount + 1
    /\ returned' = Append(returned, Outcome)
    /\ cpc' = "idle"
    /\ UNCHANGED <<idCounter, errors, html, thrown, conversion>>
    /\ UNCHANGED <<engineVars, panelVars>>

SessionInit ==
    /\ pythonCode \in Sessions
    /\ lines = <<>>
    /\ i = 0
    /\ pc = "start"
    /\ widgets = <<>>
    /\ variableMap = EmptyObject
    /\ result = EmptyResult
    /\ EngineIdle
    /\ idCounter = 0
    /\ errors = <<>>
    /\ html = <<>>
    /\ thrown = ""
    /\ conversion = NoConversion
    /\ cpc = "idle"
    /\ callCount = 1
    /\ returned = <<>>
    /\ PanelIdle

SessionNext ==
    \/ ParseNext
    \/ ConvertParsed
    \/ ConvertNext
    \/ ParseAgain

SessionSpec == SessionInit /\ [][SessionNext]_vars

-----------------------------------------------------------------------------
(* The preview panel, the file watcher and the commands of the extension.   *)
(*                                                                          *)
(* TkinterPreviewPanel.updateContent starts a readFile and returns; the     *)
(* callbacks of the read run later, each in a turn of its own, in whatever  *)
(* order the reads complete.  The markup a callback writes is made by       *)
(* parse and convert from the text it was given and from nothing else, so   *)
(* what a webview shows is named here by the file and the version of the    *)
(* text it was made from.  Both files are Python files of the workspace     *)
(* that import tkinter: shouldHandleFile and hasTkinterImports hold.        *)

MaxRequests == 2
MaxEdits == 1
MaxPanels == 2

Uris == {"a.py", "b.py"}

\* vscode.workspace.fs.readFile(pythonUri) of panel p, not yet completed:
\* the texts of a file are numbered from 1, and 0 stands for no text
Reading(p, uri) ==
    [panel |-> p, uri |-> uri, stage |-> "reading", content |-> 0]

\* this.updateWebview(...): the webview of the panel that made request r
\* shows what the request was given
UpdateWebview(r) ==
    webview' = [webview EXCEPT ![reads[r].panel] =
                   [request |-> r, uri |-> reads[r].uri,
                    content |-> reads[r].content]]

\* p.updateContent(pythonUri) up to its return: the read is started
updateContent(p, uri) ==
    /\ requested < MaxRequests
    /\ requested' = requested + 1
    /\ reads' = Append(reads, Reading(p, uri))

\* clearTimeout(existingTimeout) when the file has an entry
ClearExisting(uri) == IF uri \in updateTimeouts THEN timers[uri] - 1 ELSE timers[uri]

\* scheduleUpdate(uri): the timer of the file is cleared and a new one set
scheduleUpdate(uri) ==
    /\ timers' = [timers EXCEPT ![uri] = ClearExisting(uri) + 1]
    /\ updateTimeouts' = updateTimeouts \cup {uri}

\* updatePreview(uri)
updatePreview(uri) ==
    IF currentPanel # 0
    THEN updateContent(currentPanel, uri)
    ELSE UNCHANGED <<reads, requested>>

\* new TkinterPreviewPanel(panel, extensionUri), made the current panel
NewPanel ==
    /\ Len(webview) < MaxPanels
    /\ live' = live \cup {Len(webview) + 1}
    /\ currentPanel' = Len(webview) + 1
    /\ webview' = Append(webview, Welcome)

\* TkinterPreviewPanel.createOrShow(extensionUri, pythonUri)
createOrShow(uri) ==
    IF currentPanel # 0
    THEN /\ updateContent(currentPanel, uri)
         /\ UNCHANGED <<live, currentPanel, webview>>
    ELSE /\ NewPanel
         /\ updateContent(Len(webview) + 1, uri)

\* p.dispose()
dispose(p) ==
    /\ currentPanel' = 0
    /\ live' = live \ {p}
    /\ messages' = messages \ {p}

\* the file is saved with a new text: the file system watcher reports it
\* and handleFileChange starts its read
Save(uri) ==
    /\ disk[uri] <= MaxEdits
    /\ disk' = [disk EXCEPT ![uri] = @ + 1]
    /\ changeReads' = IF active THEN changeReads \cup {uri} ELSE changeReads
    /\ UNCHANGED <<autoRefresh, active, updateTimeouts, timers, currentPythonFile>>
    /\ UNCHANGED <<live, currentPanel, restorable, messages, reads, requested, webview>>
    /\ UNCHANGED outsidePanel

\* the first callback of handleFileChange: the text has tkinter imports
FileChangeRead(uri) ==
    /\ uri \in changeReads
    /\ changeReads' = changeReads \ {uri}
    /\ scheduleUpdate(uri)
    /\ UNCHANGED <<disk, autoRefresh, active, currentPythonFile>>
    /\ UNCHANGED <<live, currentPanel, restorable, messages, reads, requested, webview>>
    /\ UNCHANGED outsidePanel

\* the second callback of handleFileChange: the error is logged
FileChangeUnread(uri) ==
    /\ uri \in changeReads
    /\ changeReads' = changeReads \ {uri}
    /\ UNCHANGED <<disk, autoRefresh, active, updateTimeouts, timers, currentPythonFile>>
    /\ UNCHANGED <<live, currentPanel, restorable, messages, reads, requested, webview>>
    /\ UNCHANGED outsidePanel

\* handleActiveEditorChange(editor) with the file of the editor
handleActiveEditorChange(uri) ==
    /\ active
    /\ currentPythonFile' = uri
    /\ IF currentPanel # 0
       THEN scheduleUpdate(uri)
       ELSE UNCHANGED <<updateTimeouts, timers>>
    /\ UNCHANGED <<disk, autoRefresh, active, changeReads>>
    /\ UNCHANGED <<live, currentPanel, restorable, messages, reads, requested, webview>>
    /\ UNCHANGED outsidePanel

\* handleTextDocumentChange(event) with the file of the document
handleTextDocumentChange(uri) ==
    /\ active
    /\ IF autoRefresh /\ currentPanel # 0
       THEN scheduleUpdate(uri)
       ELSE UNCHANGED <<updateTimeouts, timers>>
    /\ UNCHANGED <<disk, autoRefresh, active, changeReads, currentPythonFile>>
    /\ UNCHANGED <<live, currentPanel, restorable, messages, reads, requested, webview>>
    /\ UNCHANGED outsidePanel

\* a timer of scheduleUpdate fires: updatePreview(uri), then the entry of
\* the file is deleted
TimeoutFires(uri) ==
    /\ timers[uri] > 0
    /\ updatePreview(uri)
    /\ updateTimeouts' = updateTimeouts \ {uri}
    /\ timers' = [timers EXCEPT ![uri] = @ - 1]
    /\ UNCHANGED <<disk, autoRefresh, active, changeReads, currentPythonFile>>
    /\ UNCHANGED <<live, currentPanel, restorable, messages, webview>>
    /\ UNCHANGED outsidePanel

\* the command tkinter-preview.openPreview, after checkTkinterImports:
\* createOrShow, then fileWatcher.setCurrentPythonFile
OpenPreview(uri) ==
    /\ active
    /\ createOrShow(uri)
    /\ currentPythonFile' = uri
    /\ UNCHANGED <<disk, autoRefresh, active, changeReads, updateTimeouts, timers>>
    /\ UNCHANGED <<restorable, messages>>
    /\ UNCHANGED outsidePanel

\* deserializeWebviewPanel: TkinterPreviewPanel.revive of a preview tab
\* kept from the last session
revive ==
    /\ active
    /\ restorable > 0
    /\ restorable' = restorable - 1
    /\ NewPanel
    /\ UNCHANGED <<disk, autoRefresh, active, changeReads, updateTimeouts, timers>>
    /\ UNCHANGED <<currentPythonFile, messages, reads, requested>>
    /\ UNCHANGED outsidePanel

\* the command tkinter-preview.refreshPreview: fileWatcher.forceRefresh()
RefreshPreview ==
    /\ active
    /\ currentPanel # 0
    /\ IF currentPythonFile # ""
       THEN updatePreview(currentPythonFile)
       ELSE UNCHANGED <<reads, requested>>
    /\ UNCHANGED <<disk, autoRefresh, active, changeReads, updateTimeouts, timers>>
    /\ UNCHANGED <<currentPythonFile, live, currentPanel, restorable, messages, webview>>
    /\ UNCHANGED outsidePanel

\* what refresh() of the webview script posts: a command and no uri
RefreshMessage == [command |-> "refresh", uri |-> ""]

\* the Refresh button of the webview of panel p: vscode.postMessage
RefreshClicked(p) ==
    /\ p \in live
    /\ messages' = messages \cup {p}
    /\ UNCHANGED <<disk, autoRefresh, active, changeReads, updateTimeouts, timers>>
    /\ UNCHANGED <<currentPythonFile, live, currentPanel, restorable, reads, requested, webview>>
    /\ UNCHANGED outsidePanel

\* the listener of onDidReceiveMessage with the message m
onDidReceiveMessage(p, m) ==
    IF m.command = "refresh" /\ m.uri # ""
    THEN updateContent(p, m.uri)
    ELSE UNCHANGED <<reads, requested>>

\* the message posted to panel p arrives
MessageReceived(p) ==
    /\ p \in messages
    /\ messages' = messages \ {p}
    /\ onDidReceiveMessage(p, RefreshMessage)
    /\ UNCHANGED <<disk, autoRefresh, active, changeReads, updateTimeouts, timers>>
    /\ UNCHANGED <<currentPythonFile, live, currentPanel, restorable, webview>>
    /\ UNCHANGED outsidePanel

\* the user closes panel p: onDidDispose, this.dispose()
PanelClosed(p) ==
    /\ p \in live
    /\ dispose(p)
    /\ UNCHANGED <<disk, autoRefresh, active, changeReads, updateTimeouts, timers>>
    /\ UNCHANGED <<currentPythonFile, restorable, reads, requested, webview>>
    /\ UNCHANGED outsidePanel

\* deactivate(): fileWatcher.dispose(), then currentPanel.dispose()
deactivate ==
    /\ active
    /\ active' = FALSE
    /\ timers' = [uri \in Uris |-> 0]
    /\ updateTimeouts' = {}
    /\ IF currentPanel # 0
       THEN dispose(currentPanel)
       ELSE UNCHANGED <<live, currentPanel, messages>>
    /\ UNCHANGED <<disk, autoRefresh, changeReads, currentPythonFile>>
    /\ UNCHANGED <<restorable, reads, requested, webview>>
    /\ UNCHANGED outsidePanel

\* the read of request r completes with the text now on disk
ReadCompletes(r) ==
    /\ reads[r].stage = "reading"
    /\ reads' = [reads EXCEPT ![r].stage = "read", ![r].content = disk[reads[r].uri]]
    /\ UNCHANGED <<disk, autoRefresh, active, changeReads, updateTimeouts, timers>>
    /\ UNCHANGED <<currentPythonFile, live, currentPanel, restorable, messages, requested, webview>>
    /\ UNCHANGED outsidePanel

\* the read of request r is rejected
ReadFails(r) ==
    /\ reads[r].stage = "reading"
    /\ reads' = [reads EXCEPT ![r].stage = "failed"]
    /\ UNCHANGED <<disk, autoRefresh, active, changeReads, updateTimeouts, timers>>
    /\ UNCHANGED <<currentPythonFile, live, currentPanel, restorable, messages, requested, webview>>
    /\ UNCHANGED outsidePanel

\* the first callback of updateContent: parse, convert, updateWebview
ContentRead(r) ==
    /\ reads[r].stage = "read"
    /\ UpdateWebview(r)
    /\ reads' = [reads EXCEPT ![r].stage = "done"]
    /\ UNCHANGED <<disk, autoRefresh, active, changeReads, updateTimeouts, timers>>
    /\ UNCHANGED <<currentPythonFile, live, currentPanel, restorable, messages, requested>>
    /\ UNCHANGED outsidePanel

\* the second callback of updateContent: the error fragment is shown
ContentUnread(r) ==
    /\ reads[r].stage = "failed"
    /\ UpdateWebview(r)
    /\ reads' = [reads EXCEPT ![r].stage = "done"]
    /\ UNCHANGED <<disk, autoRefresh, active, changeReads, updateTimeouts, timers>>
    /\ UNCHANGED <<currentPythonFile, live, currentPanel, restorable, messages, requested>>
    /\ UNCHANGED outsidePanel

PanelInit ==
    /\ disk = [uri \in Uris |-> 1]
    /\ autoRefresh \in BOOLEAN
    /\ active = TRUE
    /\ changeReads = {}
    /\ updateTimeouts = {}
    /\ timers = [uri \in Uris |-> 0]
    /\ currentPythonFile = ""
    /\ live = {}
    /\ currentPanel = 0
    /\ restorable \in {0, 1}
    /\ messages = {}
    /\ reads = <<>>
    /\ requested = 0
    /\ webview = <<>>
    /\ ParserIdle
    /\ EngineIdle
    /\ ConverterIdle

PanelNext ==
    \/ \E uri \in Uris : Save(uri)
    \/ \E uri \in Uris : FileChangeRead(uri)
    \/ \E uri \in Uris : FileChangeUnread(uri)
    \/ \E uri \in Uris : handleActiveEditorChange(uri)
    \/ \E uri \in Uris : handleTextDocumentChange(uri)
    \/ \E uri \in Uris : TimeoutFires(uri)
    \/ \E uri \in Uris : OpenPreview(uri)
    \/ revive
    \/ RefreshPreview
    \/ \E p \in live : RefreshClicked(p)
    \/ \E p \in messages : MessageReceived(p)
    \/ \E p \in live : PanelClosed(p)
    \/ deactivate
    \/ \E r \in 1..requested : ReadCompletes(r)
    \/ \E r \in 1..requested : ReadFails(r)
    \/ \E r \in 1..requested : ContentRead(r)
    \/ \E r \in 1..requested : ContentUnread(r)

PanelSpec == PanelInit /\ [][PanelNext]_vars

---------------------------------------------------------------------------
(* What each source line says, read by hand from its text: the statement   *)
(* shape, the widget kind, the names and the typed values it writes.       *)


Ctor(kind, name, parent, values) ==
    [shape |-> "ctor", kind |-> kind, name |-> name, parent |-> parent,
     method |-> <<>>, values |-> values]
LayoutCall(name, method, values) ==
    [shape |-> "layout", kind |-> <<>>, name |-> name, parent |-> <<>>,
     method |-> method, values |-> values]
Assignment(name, values) ==
    [shape |-> "assign", kind |-> <<>>, name |-> name, parent |-> <<>>,
     method |-> <<>>, values |-> values]
NoStatement ==
    [shape |-> "none", kind |-> <<>>, name |-> <<>>, parent |-> <<>>,
     method |-> <<>>, values |-> EmptyObject]

Statement(text) ==
    CASE text = lineTk -> Ctor(wTk, <<"r">>, <<>>, EmptyObject)
      [] text = lineFrame -> Ctor(wFrame, <<"f">>, <<"r">>, EmptyObject)
      [] text = lineLabelSelf ->
            Ctor(wLabel, <<"f">>, <<"f">>, kText :> Str(<<"H", "i">>))
      [] text = lineButton ->
            Ctor(wButton, <<"b">>, <<"f">>, kText :> Str(<<"a", ",", "b">>))
      [] text = lineBare -> Ctor(wEntry, <<>>, <<"r">>, kWidth :> Num(20))
      [] text = lineGrid ->
            LayoutCall(<<"f">>, wgrid, kRow :> Num(1) @@ kColumn :> Num(2))
      [] text = lineConfig ->
            Assignment(<<"f">>, kText :> Str(<<"a", "=", "b">>) @@ kWidth :> Num(5))
      [] text = lineSubscript -> Assignment(<<"f">>, kText :> Null)
      [] OTHER -> NoStatement

Done == pc = "done"

Range(seq) == {seq[k] : k \in 1..Len(seq)}

\* the elements of a finite set of numbers in increasing order
RECURSIVE Ascending(_)
Ascending(S) ==
    IF S = {} THEN <<>>
    ELSE LET least == CHOOSE x \in S : \A y \in S : x <= y
         IN  <<least>> \o Ascending(S \ {least})

\* the statement of the line that created widget w
Origin(w) == Statement(lines[widgets[w].line])

\* the widget that the name refers to for a statement on line k: the one
\* created by the last constructor line before k that assigns the name
Referent(name, k) ==
    LET ws == {w \in 1..Len(widgets) :
                  widgets[w].line < k /\ Origin(w).name = name /\ name # <<>>}
    IN  IF ws = {} THEN 0 ELSE CHOOSE w \in ws : \A v \in ws : v <= w

\* the widgets reachable from the set S along children
RECURSIVE Closure(_)
Closure(S) ==
    LET next == S \cup UNION {Range(widgets[w].children) : w \in S}
    IN  IF next = S THEN S ELSE Closure(next)

\* the nodes of the forest that parse returns
ForestNodes == Closure(Range(result.widgets))

Descendants(w) == Closure(Range(widgets[w].children))

\* the lines after the constructor of w, already scanned, of the given shape
\* that refer to w
StatementsOn(w, shape) ==
    {k \in (widgets[w].line + 1)..(i - 1) :
        /\ Statement(lines[k]).shape = shape
        /\ Referent(Statement(lines[k]).name, k) = w}

\* the properties of w by the statements: the constructor's key=value
\* arguments, then every later config call or subscript assignment on w
RECURSIVE Replay(_, _, _)
Replay(w, ks, acc) ==
    IF ks = <<>> THEN acc
    ELSE Replay(w, Tail(ks), ObjectAssign(acc, Statement(lines[Head(ks)]).values))

StatedProperties(w) ==
    Replay(w, Ascending(StatementsOn(w, "assign")), Origin(w).values)

---------------------------------------------------------------------------
(* Claims about TkinterParser.parse *)

\* C1: every line that matches a supported constructor pattern with an
\* allow-listed kind yields exactly one node of that kind in the forest
\* returned by parse (at any depth), and every other line yields none.
C1_OneNodePerConstructorLine ==
    Done =>
        \A k \in 1..Len(lines) :
            LET nodes == {w \in ForestNodes : widgets[w].line = k}
            IN  IF Statement(lines[k]).shape = "ctor"
                THEN /\ Cardinality(nodes) = 1
                     /\ \A w \in nodes : widgets[w].type = Statement(lines[k]).kind
                ELSE nodes = {}

\* C2: parse reports hasErrors = false and no errors whatever the lines are;
\* lines of no supported shape or of an unsupported kind produce no node.
C2_NoErrorsOnMismatch ==
    /\ result.hasErrors = FALSE
    /\ result.errors = <<>>
    /\ \A w \in 1..Len(widgets) : Origin(w).shape = "ctor"

C2_Witness ==
    /\ Done
    /\ lineBroken \in Range(lines)
    /\ lineUnknown \in Range(lines)
    /\ Len(widgets) = 1

\* C3: in hierarchy assembly every node whose parent reference names a
\* registered node (the last one registered under the name) is the last child
\* of that node at the time, so children are in source order; every other node
\* is a root and the roots are in encounter order.
ParentOf(w) ==
    IF Origin(w).parent = <<>> THEN 0
    ELSE Referent(Origin(w).parent, Len(lines) + 1)

C3_HierarchyInSourceOrder ==
    Done =>
        /\ \A p \in 1..Len(widgets) :
              widgets[p].children =
                  Ascending({w \in 1..Len(widgets) : ParentOf(w) = p})
        /\ result.widgets = Ascending({w \in 1..Len(widgets) : ParentOf(w) = 0})

C3_Witness ==
    /\ Done
    /\ Len(result.widgets) = 1
    /\ \E p \in 1..Len(widgets) : Len(widgets[p].children) = 2

\* C4: the structure built by parse is a forest: no node is its own child or
\* descendant and no node is a child of more than one node.
C4_ForestIsAcyclic ==
    Done =>
        \A w \in 1..Len(widgets) :
            /\ w \notin Descendants(w)
            /\ Cardinality({p \in 1..Len(widgets) :
                               w \in Range(widgets[p].children)}) <= 1

\* C5: a layout call on a name that no constructor has registered yet sets
\* nothing on the node constructed later under that name and reports no error;
\* a call after the constructor sets layoutManager to the method and
\* layoutOptions to the arguments of that call.
C5_LayoutCallsInOrder ==
    /\ result.hasErrors = FALSE
    /\ \A w \in 1..Len(widgets) :
          LET calls == StatementsOn(w, "layout")
              last == CHOOSE k \in calls : \A c \in calls : c <= k
          IN  IF calls = {}
              THEN /\ widgets[w].layoutManager = <<>>
                   /\ ~widgets[w].hasLayoutOptions
              ELSE /\ widgets[w].layoutManager = Statement(lines[last]).method
                   /\ widgets[w].hasLayoutOptions
                   /\ widgets[w].layoutOptions = Statement(lines[last]).values

C5_Witness ==
    /\ Done
    /\ \E w \in 1..Len(widgets) :
          /\ widgets[w].layoutManager = wgrid
          /\ \E k \in 1..(widgets[w].line - 1) :
                /\ Statement(lines[k]).shape = "layout"
                /\ Statement(lines[k]).name = widgets[w].name
                /\ Referent(widgets[w].name, k) = 0

\* C6: a config call sets each key to the typed value written for it,
\* overwriting earlier values, a subscript assignment sets its one key, and
\* every other key of the node and every other node stay as they were.
C6_ConfigSetsTypedValues ==
    \A w \in 1..Len(widgets) : widgets[w].properties = StatedProperties(w)

---------------------------------------------------------------------------
(* The behaviour engine: what the caller sees *)

\* the widgets of the argument and of the returned forest, in visiting order;
\* the k-th of one corresponds to the k-th of the other
Given == PreOrder(before, forest)
Returned == PreOrder(heap, modifiedWidgets)

Returning == bpc = "done"

\* C7: applyBehaviors never mutates its argument: during and after the call
\* every widget of the caller's forest has the properties, layoutManager,
\* layoutOptions and children it had when the call was made, and the forest
\* being returned shares no widget with the caller's forest.
C7_ArgumentUntouched ==
    bpc # "call" =>
        /\ \A id \in Range(Given) :
              /\ heap[id].properties = before[id].properties
              /\ heap[id].layoutManager = before[id].layoutManager
              /\ heap[id].hasLayoutOptions = before[id].hasLayoutOptions
              /\ heap[id].layoutOptions = before[id].layoutOptions
              /\ heap[id].children = before[id].children
        /\ Range(Returned) \cap Range(Given) = {}

C7_Witness ==
    /\ Returning
    /\ Len(Given) = MaxNodes
    /\ \A k \in 1..Len(Given) :
          heap[Returned[k]].properties # before[Given[k]].properties
    /\ \E k \in 1..Len(Given) :
          heap[Returned[k]].layoutOptions # before[Given[k]].layoutOptions

\* C8: a widget of any kind whose properties hold a width (a height) when
\* applyBehaviors is called has the same width (height) in the returned
\* forest, whatever the value is.
C8_ExplicitSizeSurvives ==
    Returning =>
        \A k \in 1..Len(Given) :
            \A key \in {kWidth, kHeight} :
                key \in DOMAIN before[Given[k]].properties =>
                    /\ key \in DOMAIN heap[Returned[k]].properties
                    /\ heap[Returned[k]].properties[key]
                          = before[Given[k]].properties[key]

\* C9: applying applyBehaviors to the forest it returned gives a forest in
\* which every widget has the properties, layoutManager and layoutOptions it
\* had after the first application.
C9_Idempotent ==
    (Returning /\ round = 2) =>
        \A k \in 1..Len(Given) :
            /\ heap[Returned[k]].properties = before[Given[k]].properties
            /\ heap[Returned[k]].layoutManager = before[Given[k]].layoutManager
            /\ heap[Returned[k]].layoutOptions = before[Given[k]].layoutOptions

\* the grid-placed children of a widget, and what their options say
GridChildren(id) ==
    {c \in Range(heap[id].children) : heap[c].layoutManager = wgrid}

Largest(S) == CHOOSE m \in S : \A x \in S : x <= m

\* options[key], or missing when the key is absent
Stated(c, key, missing) ==
    IF key \in DOMAIN heap[c].layoutOptions
    THEN heap[c].layoutOptions[key].n
    ELSE missing

\* the same, an explicit 0 counting as absent too
StatedOrZero(c, key, missing) ==
    IF Stated(c, key, 0) = 0 THEN missing ELSE Stated(c, key, 0)

Extent(id, key) == Get(heap[id].properties, key)

GridExtentsRecorded ==
    Returning =>
        \A id \in Range(Returned) :
            GridChildren(id) # {} =>
                /\ Extent(id, kGridRows) =
                      Num(Largest({1} \cup
                            {Stated(c, kRow, 0) + StatedOrZero(c, kRowspan, 1) :
                                c \in GridChildren(id)}))
                /\ Extent(id, kGridColumns) =
                      Num(Largest({1} \cup
                            {Stated(c, kColumn, 0) + StatedOrZero(c, kColumnspan, 1) :
                                c \in GridChildren(id)}))

GridExtentsGrow ==
    \A id \in DOMAIN heap :
        \A key \in {kGridRows, kGridColumns} :
            key \in DOMAIN heap[id].properties =>
                /\ key \in DOMAIN heap'[id].properties
                /\ heap'[id].properties[key].n >= heap[id].properties[key].n

validSides == {Str(sTop), Str(sBottom), Str(sLeft), Str(sRight)}
validFills == {Str(sNone), Str(<<"x">>), Str(<<"y">>), Str(sBoth)}

\* the positions, in pre-order, of the nodes of forest ids over heap h that
\* are a child of some node and are managed by pack
PackChildren(h, ids) ==
    {k \in 1..Len(PreOrder(h, ids)) :
        /\ h[PreOrder(h, ids)[k]].layoutManager = wpack
        /\ \E p \in Range(PreOrder(h, ids)) :
              PreOrder(h, ids)[k] \in Range(h[p].children)}

GivenOption(k, key) == Get(before[Given[k]].layoutOptions, key)
ReturnedOption(k, key) == Get(heap[Returned[k]].layoutOptions, key)

\* the number of warnings made of the given text and the given value
Warned(text, value) ==
    Cardinality({j \in 1..Len(warnings) :
                    warnings[j] = [text |-> text, args |-> <<value>>]})

\* every value of option key that the input gives to a pack-managed child
\* outside the set valid has been replaced by fallback and warned of once
Rejected(key, valid, fallback, text) ==
    \A k \in PackChildren(before, forest) :
        (GivenOption(k, key) \notin valid \cup {Undefined}) =>
            /\ ReturnedOption(k, key) = fallback
            /\ Warned(text, GivenOption(k, key)) =
                   Cardinality({m \in PackChildren(before, forest) :
                                   GivenOption(m, key) = GivenOption(k, key)})

\* C11: when applyBehaviors returns, every pack-managed child has a side
\* among top, bottom, left, right and a fill that is absent or among none,
\* x, y, both; every side or fill the input gives outside its set has been
\* replaced by top or none and has produced exactly one warning naming it.
C11_PackOptionsValidated ==
    Returning =>
        /\ \A k \in PackChildren(heap, modifiedWidgets) :
              /\ ReturnedOption(k, kSide) \in validSides
              /\ ReturnedOption(k, kFill) \in validFills \cup {Undefined}
        /\ Rejected(kSide, validSides, Str(sTop), "Invalid pack side")
        /\ Rejected(kFill, validFills, Str(sNone), "Invalid pack fill")

\* ---------------------------------------------------------------------
\* Layout inference
\* ---------------------------------------------------------------------
\* the k-th given node has children, none of which has a layout manager
NoneLaid(k) ==
    /\ before[Given[k]].children # <<>>
    /\ \A c \in Range(before[Given[k]].children) :
          before[c].layoutManager = <<>>

\* C12: when applyBehaviors returns, a node none of whose children had a
\* layout manager has every child managed by pack with side top; under a
\* node with at least one laid-out child, the children that had no layout
\* manager still have none.
C12_InferenceAllOrNothing ==
    Returning =>
        \A k \in 1..Len(Given) :
            \A j \in 1..Len(before[Given[k]].children) :
                IF NoneLaid(k)
                THEN /\ heap[heap[Returned[k]].children[j]].layoutManager
                            = wpack
                     /\ Get(heap[heap[Returned[k]].children[j]].layoutOptions,
                            kSide) = Str(sTop)
                ELSE before[before[Given[k]].children[j]].layoutManager = <<>>
                        => heap[heap[Returned[k]].children[j]].layoutManager
                               = <<>>

\* applyBehaviors has returned for a forest in which a node has two
\* children, neither with a layout manager
C12_Witness ==
    /\ Returning
    /\ round = 1
    /\ \E k \in 1..Len(Given) :
          NoneLaid(k) /\ Len(before[Given[k]].children) = 2

\* ---------------------------------------------------------------------
\* Diagnostics
\* ---------------------------------------------------------------------
\* the number of children of the k-th given node that have a layout manager
LaidOut(k) ==
    Cardinality({j \in 1..Len(before[Given[k]].children) :
                    before[before[Given[k]].children[j]].layoutManager # <<>>})

PartlyLaid(k) ==
    /\ LaidOut(k) > 0
    /\ LaidOut(k) < Len(before[Given[k]].children)

\* the distinct layout managers of the children of the k-th given node
ManagersGiven(k) ==
    {before[c].layoutManager : c \in Range(before[Given[k]].children)}
        \ {<<>>}

\* the diagnostics due for the k-th given node
DiagnosticsFor(k) ==
    (IF PartlyLaid(k)
     THEN <<[text |-> "children have no layout manager",
             args |-> <<Num(Len(before[Given[k]].children) - LaidOut(k)),
                        Str(before[Given[k]].type)>>]>>
     ELSE <<>>)
    \o
    (IF Cardinality(ManagersGiven(k)) > 1
     THEN <<[text |-> "has children with mixed layout managers",
             args |-> <<Str(before[Given[k]].type)>>
                        \o ManagersOf(before, before[Given[k]].children,
                                      <<>>)]>>
     ELSE <<>>)

\* the diagnostics due for the given nodes from the k-th on
RECURSIVE DiagnosticsFrom(_)
DiagnosticsFrom(k) ==
    IF k > Len(Given) THEN <<>>
    ELSE DiagnosticsFor(k) \o DiagnosticsFrom(k + 1)

IsDiagnostic(w) ==
    w.text \in {"children have no layout manager",
                "has children with mixed layout managers"}

DiagnosticsAsDue ==
    Returning => SelectSeq(warnings, IsDiagnostic) = DiagnosticsFrom(1)

DiagnosticsChangeNoNode == bpc = "validate" => heap' = heap

\* C13: when applyBehaviors returns, its warnings hold one "children have no
\* layout manager" entry for each parent of which some but not all children
\* had a layout manager in the input, one "mixed layout managers" entry for
\* each parent whose children had more than one distinct layout manager, and
\* no other entry of either kind; the diagnostics pass changes no node.
C13_Diagnostics == []DiagnosticsAsDue /\ [][DiagnosticsChangeNoNode]_vars

\* applyBehaviors has returned a warning for a parent with one laid-out child
\* and one child without a layout manager
C13_Witness ==
    /\ Returning
    /\ \E k \in 1..Len(Given) : PartlyLaid(k)
    /\ \E j \in 1..Len(warnings) :
          warnings[j].text = "children have no layout manager"

\* ---------------------------------------------------------------------
\* convert
\* ---------------------------------------------------------------------
Converted == cpc = "done"

\* the entries of the returned errors that report an exception
ConversionErrors ==
    SelectSeq(conversion.errors, LAMBDA e : e.kind = "Conversion error")

\* C14: an exception thrown in the try block of convert (by the markup
\* generation, on a text or title that is not a string: the behaviour stage
\* throws on no forest of the model) never takes the normal return; convert
\* then returns hasErrors = true, exactly one error entry for the exception,
\* the fallback error fragment as markup and the default stylesheet.
C14_FaultsAreCaught ==
    /\ cpc = "return" => thrown = ""
    /\ (Converted /\ thrown # "") =>
          /\ conversion.hasErrors
          /\ ConversionErrors
                = <<ErrorEntry("Conversion error", thrown, <<>>)>>
          /\ conversion.html
                = <<"<div class=\"tkinter-error\">Conversion failed: ",
                    thrown, "</div>">>
          /\ conversion.css = generateSimpleCSS

\* convert has returned after an exception, for a forest that also drew a
\* warning from the behaviour engine
C14_Witness ==
    /\ Converted
    /\ thrown # ""
    /\ Len(conversion.errors) > 1

\* the pieces of the markup that open or close an element of a widget
ElementOf(piece) ==
    CASE piece = "\" class=\"tk-window\">" -> "window"
      [] piece = "<div class=\"tk-titlebar\">" -> "title bar"
      [] piece \in {"<div class=\"tk-content\">",
                    "<div class=\"tk-content-grid\">"} -> "content"
      [] piece = "</div></div>" -> "end of window"
      [] piece = "\" class=\"tk-label\" style=\"" -> "label"
      [] piece = "\" class=\"tk-button\" style=\"" -> "button"
      [] OTHER -> ""

\* the elements of a markup, in order
RECURSIVE Skeleton(_)
Skeleton(markup) ==
    IF markup = <<>> THEN <<>>
    ELSE (IF ElementOf(Head(markup)) = "" THEN <<>>
          ELSE <<ElementOf(Head(markup))>>) \o Skeleton(Tail(markup))

\* the elements due for the forest ids over heap h: a window is a title bar
\* and a content region around its children, a Label or a Button is one
\* element, anything else is nothing, whatever it holds
RECURSIVE Rendering(_, _)
Rendering(h, ids) ==
    IF ids = <<>> THEN <<>>
    ELSE (CASE h[Head(ids)].type \in {wTk, wToplevel} ->
                  <<"window", "title bar", "content">>
                      \o Rendering(h, gridChildren(h, Head(ids)))
                      \o <<"end of window">>
            [] h[Head(ids)].type = wLabel -> <<"label">>
            [] h[Head(ids)].type = wButton -> <<"button">>
            [] OTHER -> <<>>)
         \o Rendering(h, Tail(ids))

\* the identifiers embedded in a markup
Identifiers(markup) ==
    Cardinality({k \in 1..Len(markup) : markup[k] = "tkinter-widget-"})

Until(markup, p, closing) ==
    SubSeq(markup, p, IndexFrom(markup, p, closing) - 1)

\* the text of the element whose class is at position k of a markup: the
\* title of a window, the content of a label or button
TextOfElement(markup, k) ==
    IF ElementOf(markup[k]) = "window"
    THEN Until(markup,
               IndexFrom(markup, k, "<div class=\"tk-titlebar-title\">") + 1,
               "</div>")
    ELSE Until(markup, IndexFrom(markup, k, "\">") + 1,
               IF ElementOf(markup[k]) = "label" THEN "</div>"
               ELSE "</button>")

\* the windows, labels and buttons of a markup with their texts, in order
RECURSIVE ElementsFrom(_, _)
ElementsFrom(markup, k) ==
    IF k > Len(markup) THEN <<>>
    ELSE (IF ElementOf(markup[k]) \in {"window", "label", "button"}
          THEN <<[element |-> ElementOf(markup[k]),
                  text |-> TextOfElement(markup, k)]>>
          ELSE <<>>) \o ElementsFrom(markup, k + 1)

\* the row or column stated for a widget, 0 when none is
GridPlace(widget, key) ==
    IF Get(widget.layoutOptions, key) = Undefined THEN 0
    ELSE Get(widget.layoutOptions, key).n

\* widget a is due before widget b by (row, then column)
GridBefore(a, b) ==
    \/ GridPlace(a, kRow) < GridPlace(b, kRow)
    \/ /\ GridPlace(a, kRow) = GridPlace(b, kRow)
       /\ GridPlace(a, kColumn) < GridPlace(b, kColumn)

\* the order stated for the children ids of a window: by (row, column) with
\* ties in source order when one of them uses grid, source order otherwise
StatedOrder(h, ids) ==
    IF \A k \in 1..Len(ids) : h[ids[k]].layoutManager # wgrid THEN ids
    ELSE CHOOSE order \in [1..Len(ids) -> Range(ids)] :
            /\ Range(order) = Range(ids)
            /\ \A a, b \in 1..Len(ids) :
                  a < b => ~GridBefore(h[order[b]], h[order[a]])
            /\ \A a, b \in 1..Len(ids) :
                  (/\ a < b
                   /\ ~GridBefore(h[ids[a]], h[ids[b]])
                   /\ ~GridBefore(h[ids[b]], h[ids[a]]))
                  => \E x, y \in 1..Len(ids) :
                        x < y /\ order[x] = ids[a] /\ order[y] = ids[b]

\* the text an element shows for property key of a widget
ShownText(widget, key, default) ==
    escapeHtml(StringOf(OrElse(Get(widget.properties, key), Str(default))))

\* the elements due for the forest ids over heap h, in the stated order
RECURSIVE StatedElements(_, _)
StatedElements(h, ids) ==
    IF ids = <<>> THEN <<>>
    ELSE (CASE h[Head(ids)].type \in {wTk, wToplevel} ->
                  <<[element |-> "window",
                     text |-> ShownText(h[Head(ids)], kTitle, wTk)]>>
                      \o StatedElements(h, StatedOrder(h, h[Head(ids)].children))
            [] h[Head(ids)].type = wLabel ->
                  <<[element |-> "label",
                     text |-> ShownText(h[Head(ids)], kText, <<>>)]>>
            [] h[Head(ids)].type = wButton ->
                  <<[element |-> "button",
                     text |-> ShownText(h[Head(ids)], kText, wButton)]>>
            [] OTHER -> <<>>)
         \o StatedElements(h, Tail(ids))

\* C16: in the markup convert returns without an exception, the children of
\* each window follow one another by ascending (row, then column) of the
\* integer grid options, children of equal row and column in source order,
\* when a direct child of the window uses grid, and in source order when
\* none does.
C16_ChildrenInGridOrder ==
    (Converted /\ thrown = "") =>
        ElementsFrom(conversion.html, 1) = StatedElements(heap, forest)

\* convert has returned the markup of a window whose grid children are not
\* in source order
C16_Witness ==
    /\ Converted
    /\ thrown = ""
    /\ \E p \in Range(forest) :
          /\ heap[p].type \in {wTk, wToplevel}
          /\ hasGridChildren(heap, p)
          /\ StatedOrder(heap, heap[p].children) # heap[p].children
          /\ \A c \in Range(heap[p].children) :
                heap[c].type \in {wLabel, wButton}

\* ---------------------------------------------------------------------
\* Sticky
\* ---------------------------------------------------------------------
\* the positions in a markup of the classes of its windows, labels and
\* buttons, in order
RECURSIVE ElementPositions(_, _)
ElementPositions(markup, k) ==
    IF k > Len(markup) THEN <<>>
    ELSE (IF ElementOf(markup[k]) \in {"window", "label", "button"}
          THEN <<k>> ELSE <<>>) \o ElementPositions(markup, k + 1)

\* the nodes of the forest ids over heap h that are due an element, in the
\* stated order
RECURSIVE StatedNodes(_, _)
StatedNodes(h, ids) ==
    IF ids = <<>> THEN <<>>
    ELSE (CASE h[Head(ids)].type \in {wTk, wToplevel} ->
                  <<Head(ids)>>
                      \o StatedNodes(h, StatedOrder(h, h[Head(ids)].children))
            [] h[Head(ids)].type \in {wLabel, wButton} -> <<Head(ids)>>
            [] OTHER -> <<>>)
         \o StatedNodes(h, Tail(ids))

\* the style attribute of the k-th element of the returned markup
StyleOf(k) ==
    Until(conversion.html, ElementPositions(conversion.html, 1)[k] + 1, "\">")

\* a sticky value names an edge by its letter, in either case
Names(sticky, lower, upper) ==
    \E j \in 1..Len(sticky) : sticky[j] \in {lower, upper}

\* the alignment stated for an axis with the given start and end edges
StatedAlignment(sticky, start, START, end, END) ==
    IF Names(sticky, start, START) /\ Names(sticky, end, END) THEN "stretch"
    ELSE IF Names(sticky, end, END) THEN "end"
    ELSE "start"

\* a style holds property exactly once, with the given value
Styled(style, property, value) ==
    /\ Cardinality({j \in 1..Len(style) : style[j] = property}) = 1
    /\ \E j \in 1..(Len(style) - 1) :
          style[j] = property /\ style[j + 1] = value

\* the k-th element shows the node's sticky value as stated; without a
\* sticky value it has no alignment of its own, and the start alignment of
\* the stylesheet's grid container applies
StickyShown(k, node) ==
    IF Truthy(Get(node.layoutOptions, kSticky))
    THEN /\ Styled(StyleOf(k), "justify-self: ",
                   StatedAlignment(StringOf(Get(node.layoutOptions, kSticky)),
                                    "w", "W", "e", "E"))
         /\ Styled(StyleOf(k), "align-self: ",
                   StatedAlignment(StringOf(Get(node.layoutOptions, kSticky)),
                                    "n", "N", "s", "S"))
    ELSE \A j \in 1..Len(StyleOf(k)) :
            StyleOf(k)[j] \notin {"justify-self: ", "align-self: "}

\* C17: in the markup convert returns without an exception, the element of
\* a grid-managed Label or Button carries, for its sticky value, the
\* horizontal alignment stretch for both e and w, end for e alone, start
\* otherwise, and independently the vertical alignment stretch for both n
\* and s, end for s alone, start otherwise.
C17_StickyPerAxis ==
    (Converted /\ thrown = "") =>
        \A k \in 1..Len(StatedNodes(heap, forest)) :
            (/\ heap[StatedNodes(heap, forest)[k]].type \in {wLabel, wButton}
             /\ heap[StatedNodes(heap, forest)[k]].layoutManager = wgrid)
            => StickyShown(k, heap[StatedNodes(heap, forest)[k]])

\* convert has returned the markup of a grid child with sticky="nsew"
C17_Witness ==
    /\ Converted
    /\ thrown = ""
    /\ forest = <<1>>
    /\ heap[1].children = <<2>>
    /\ heap[2].type = wLabel
    /\ heap[2].layoutManager = wgrid
    /\ Get(heap[2].layoutOptions, kSticky) = Str(<<"n", "s", "e", "w">>)
    /\ Styled(StyleOf(2), "justify-self: ", "stretch")
    /\ Styled(StyleOf(2), "align-self: ", "stretch")

\* ---------------------------------------------------------------------
\* Escaping
\* ---------------------------------------------------------------------
\* the entity of a character, the character itself when it has none
EntityOf(c) ==
    CASE c = "&" -> <<"&", "a", "m", "p", ";">>
      [] c = "<" -> <<"&", "l", "t", ";">>
      [] c = ">" -> <<"&", "g", "t", ";">>
      [] c = "\"" -> <<"&", "q", "u", "o", "t", ";">>
      [] c = "'" -> <<"&", "#", "3", "9", ";">>
      [] OTHER -> <<c>>

\* a text with each of its characters replaced by its entity, once
RECURSIVE Entities(_)
Entities(text) ==
    IF text = <<>> THEN <<>>
    ELSE EntityOf(Head(text)) \o Entities(Tail(text))

\* the title or text a node states, or the default of its kind
StatedText(node) ==
    IF node.type \in {wTk, wToplevel}
    THEN StringOf(OrElse(Get(node.properties, kTitle), Str(wTk)))
    ELSE IF node.type = wLabel
    THEN StringOf(OrElse(Get(node.properties, kText), Str(<<>>)))
    ELSE StringOf(OrElse(Get(node.properties, kText), Str(wButton)))

\* C18: in the markup convert returns without an exception, the title of
\* every window and the text of every label and button stand with each of
\* & < > " ' replaced by its entity exactly once: the ampersand of an entity
\* is not escaped again.
C18_TextsEscapedOnce ==
    (Converted /\ thrown = "") =>
        /\ Len(ElementsFrom(conversion.html, 1))
               = Len(StatedNodes(heap, forest))
        /\ \A k \in 1..Len(StatedNodes(heap, forest)) :
              ElementsFrom(conversion.html, 1)[k].text
                  = Entities(StatedText(heap[StatedNodes(heap, forest)[k]]))

\* convert has returned the markup of a window whose title and whose button
\* text hold a less-than sign, an ampersand and a quotation mark
C18_Witness ==
    /\ Converted
    /\ thrown = ""
    /\ forest = <<1>>
    /\ heap[1].children = <<2>>
    /\ heap[2].type = wButton
    /\ Get(heap[1].properties, kTitle) = Str(<<"<", "&", "\"">>)
    /\ Get(heap[2].properties, kText) = Str(<<"<", "&", "\"">>)

\* ---------------------------------------------------------------------
\* No state between invocations
\* ---------------------------------------------------------------------
\* C19: on one parser, behaviour engine and converter, a call given the same
\* source text as an earlier call returns what that call returned: the same
\* parse result and forest, the same annotated forest, warnings and applied
\* rules, the same markup with the same element identifiers and the same
\* errors, whatever was converted in between.
C19_SameInputSameResult ==
    Converted =>
        \A k \in 1..Len(returned) :
            returned[k].pythonCode = pythonCode => returned[k] = Outcome

\* the third call has returned for the text of the first call, after a
\* second call for another text that left errors and identifiers behind
C19_Witness ==
    /\ Converted
    /\ callCount = 3
    /\ returned[1].pythonCode = pythonCode
    /\ returned[2].pythonCode # pythonCode
    /\ returned[2].conversion.hasErrors
    /\ Identifiers(conversion.html) = 2

\* every read that was started has completed and its callback has run
Completed == \A r \in 1..requested : reads[r].stage = "done"

\* C20: once every read that was started has completed and its callback
\* has run, the webview shows what the most recently requested update was
\* given: the file of that request, with the text its read returned
C20_LatestRequestShown ==
    (requested > 0 /\ Completed) =>
        /\ webview[reads[requested].panel].uri = reads[requested].uri
        /\ webview[reads[requested].panel].content = reads[requested].content

\* a step in which the refresh message posted to the live panel p is received
RefreshReceived(p) ==
    /\ p \in messages
    /\ p \notin messages'
    /\ p \in live'

\* a step in which panel p starts to read the file it shows
Recomputes(p) ==
    /\ requested' = requested + 1
    /\ reads'[requested'].panel = p
    /\ reads'[requested'].uri = webview[p].uri

\* C21: whenever the refresh message of the Refresh button is received by
\* a panel that shows a file, the panel starts to recompute the preview of
\* that file
C21_RefreshRecomputes ==
    [][\A p \in 1..Len(webview) :
          (RefreshReceived(p) /\ webview[p].uri # "") => Recomputes(p)]_vars

\* a step in which the watcher handles a change of the file: the callback
\* of the read of handleFileChange, or handleTextDocumentChange
FileChangeHandled(uri) == FileChangeRead(uri) \/ handleTextDocumentChange(uri)

\* C22: while autoRefresh is false, no step in which the watcher handles a
\* change of a file, on disk or in the editor, sets a timer for an update
C22_NoUpdateWithoutAutoRefresh ==
    [][\A uri \in Uris :
          (~autoRefresh /\ FileChangeHandled(uri)) =>
              UNCHANGED <<updateTimeouts, timers>>]_vars

\* the timers of the file that are pending: at most one, and one exactly
\* when updateTimeouts has an entry for the file
OneTimer(uri) ==
    /\ timers[uri] <= 1
    /\ timers[uri] = 1 <=> uri \in updateTimeouts

\* C28: every file has at most one pending timer, and once the watcher is
\* disposed no timer is pending
C28_OneTimerPerFile ==
    /\ \A uri \in DOMAIN timers : OneTimer(uri)
    /\ ~active => \A uri \in DOMAIN timers : timers[uri] = 0

\* a step leaves what the webview of every disposed panel was made from
DisposedUnwritten ==
    \A p \in 1..Len(webview) : p \notin live => webview'[p] = webview[p]

\* currentPanel is undefined exactly when no panel is live
CurrentWhenLive == currentPanel = 0 <=> live = {}

\* C29: no step writes the webview of a disposed panel, and currentPanel
\* is undefined exactly when no live panel exists
C29_DisposedNeverWritten ==
    [][DisposedUnwritten]_vars /\ []CurrentWhenLive

\* ---------------------------------------------------------------------
\* Style attributes
\* ---------------------------------------------------------------------
\* the characters of a style attribute that stand for data: a piece of one
\* character is a character of a value, the pieces of the template are longer
DataOf(style) == {style[j] : j \in {m \in 1..Len(style) : Len(style[m]) = 1}}

\* C30: in the markup convert returns without an exception, no style
\* attribute of a label or button holds, as a character of a value, a
\* quotation mark, a less-than sign or a greater-than sign
C30_StyleValuesEscaped ==
    (Converted /\ thrown = "") =>
        \A k \in 1..Len(StatedNodes(heap, forest)) :
            heap[StatedNodes(heap, forest)[k]].type \in {wLabel, wButton}
            => DataOf(StyleOf(k)) \cap {"\"", "<", ">"} = {}

\* ---------------------------------------------------------------------
\* Windows
\* ---------------------------------------------------------------------
\* the title stated for a window: its own, or the default of its kind
StatedTitle(input) ==
    IF kTitle \in DOMAIN input.properties THEN input.properties[kTitle]
    ELSE IF input.type = wTk THEN Str(wTk)
    ELSE Str(wToplevel)

\* a window is returned with its title, the root flag and, when it had
\* neither width nor height, a width and a height
WindowAsStated(input, output) ==
    /\ Get(output.properties, kTitle) = StatedTitle(input)
    /\ Get(output.properties, kIsRoot) = Bool(TRUE)
    /\ (/\ kWidth \notin DOMAIN input.properties
        /\ kHeight \notin DOMAIN input.properties)
       => /\ IsNumber(Get(output.properties, kWidth))
          /\ IsNumber(Get(output.properties, kHeight))

\* C23: when applyBehaviors returns, every Tk and Toplevel of the forest,
\* at top level or below another widget, has its title (its own, or Tk or
\* Toplevel by kind), the root flag and, when it had neither width nor
\* height, an estimated width and height
C23_EveryWindowIsRoot ==
    Returning =>
        \A k \in 1..Len(Given) :
            before[Given[k]].type \in {wTk, wToplevel}
            => WindowAsStated(before[Given[k]], heap[Returned[k]])

\* ---------------------------------------------------------------------
\* The estimated size of a window
\* ---------------------------------------------------------------------
\* the children of a window of the argument
ChildrenGiven(id) == [k \in 1..Len(before[id].children) |-> before[before[id].children[k]]]

\* a child is packed at the top or bottom, or at the left or right
PackedAlong(child, sides) ==
    child.layoutManager = wpack /\ PackSide(child) \in sides

\* the sum of a sequence of numbers
RECURSIVE Total(_)
Total(ns) == IF ns = <<>> THEN 0 ELSE Head(ns) + Total(Tail(ns))

\* the sizes along one axis of the children for which packed is as given:
\* their estimated heights for the sides top and bottom, their estimated
\* widths for the sides left and right
SizesAlong(id, sides, packed) ==
    LET chosen == SelectSeq(ChildrenGiven(id),
                            LAMBDA c : PackedAlong(c, sides) = packed)
    IN  [k \in 1..Len(chosen) |->
            IF Str(sTop) \in sides THEN estimateWidgetHeight(chosen[k]).n
            ELSE estimateWidgetWidth(chosen[k]).n]

\* the sum of the sizes of the children packed along the axis, combined by
\* max with the size of every other child
StatedExtent(id, sides) ==
    Largest({Total(SizesAlong(id, sides, TRUE))}
                \cup Range(SizesAlong(id, sides, FALSE)))

\* the size stated for a window of the argument
StatedSize(id) ==
    IF before[id].children = <<>> THEN [width |-> 200, height |-> 100]
    ELSE [width |-> Largest({StatedExtent(id, {Str(sLeft), Str(sRight)}) + 40, 200}),
          height |-> Largest({StatedExtent(id, {Str(sTop), Str(sBottom)}) + 60, 150})]

\* a top-level window of the argument that has neither width nor height
Estimated(id) ==
    /\ id \in Range(forest)
    /\ before[id].type \in {wTk, wToplevel}
    /\ kWidth \notin DOMAIN before[id].properties
    /\ kHeight \notin DOMAIN before[id].properties

\* C24: a top-level window without width and height is returned with the
\* stated size: the sum of the heights of its children packed top or bottom
\* combined by max with the heights of its other children, plus 60 and at
\* least 150; the sum of the widths of its children packed left or right
\* combined by max with the widths of its other children, plus 40 and at
\* least 200; 200 by 100 without children
C24_EstimateAsStated ==
    (Returning /\ round = 1) =>
        \A k \in 1..Len(Given) :
            Estimated(Given[k]) =>
                /\ Get(heap[Returned[k]].properties, kWidth)
                      = Num(StatedSize(Given[k]).width)
                /\ Get(heap[Returned[k]].properties, kHeight)
                      = Num(StatedSize(Given[k]).height)

\* a node of the argument is a child of a window whose size is estimated
ChildOfEstimated(id) ==
    \E w \in 1..Len(before) : Estimated(w) /\ id \in Range(before[w].children)

\* C25: the width and height of a child that the estimate of its window
\* uses are the calculated width and height that the child is returned with
C25_EstimateUsesCalculatedSize ==
    (Returning /\ round = 1) =>
        \A k \in 1..Len(Given) :
            ChildOfEstimated(Given[k]) =>
                /\ kCalculatedWidth \in DOMAIN heap[Returned[k]].properties =>
                      heap[Returned[k]].properties[kCalculatedWidth]
                          = estimateWidgetWidth(before[Given[k]])
                /\ kCalculatedHeight \in DOMAIN heap[Returned[k]].properties =>
                      heap[Returned[k]].properties[kCalculatedHeight]
                          = estimateWidgetHeight(before[Given[k]])

\* C26: every key of the properties of a node of the argument is a key of
\* the node returned for it, with the same value
C26_OnlyAddsKeys ==
    Returning =>
        \A k \in 1..Len(Given) :
            \A key \in DOMAIN before[Given[k]].properties :
                /\ key \in DOMAIN heap[Returned[k]].properties
                /\ heap[Returned[k]].properties[key]
                      = before[Given[k]].properties[key]

\* the argument with every child of the window packed at the top
PackedTop(id) ==
    [c \in 1..Len(before) |->
        IF c \in Range(before[id].children)
        THEN Laid(before[c], wpack, kSide :> Str(sTop))
        ELSE before[c]]

\* no child of the window has a layout manager, and it has children
Unmanaged(id) ==
    /\ before[id].children # <<>>
    /\ \A c \in Range(before[id].children) : before[c].layoutManager = <<>>

\* C27: a top-level window without width and height whose children all lack
\* a layout manager is returned with the size estimated for the same window
\* with every child packed at the top
C27_UnmanagedAsPackedTop ==
    (Returning /\ round = 1) =>
        \A k \in 1..Len(Given) :
            (Estimated(Given[k]) /\ Unmanaged(Given[k])) =>
                /\ Get(heap[Returned[k]].properties, kWidth)
                      = estimateWindowSize(PackedTop(Given[k]),
                                           before[Given[k]]).width
                /\ Get(heap[Returned[k]].properties, kHeight)
                      = estimateWindowSize(PackedTop(Given[k]),
                                           before[Given[k]]).height

=============================================================================
